---- MODULE Spec2Model ----
(***************************************************************************)
(* Authentication and session lifecycle of rag-admin: AuthService           *)
(* (sign_up, sign_in, refresh_tokens, sign_out), OAuthService               *)
(* (get_or_create_google_user), the repositories they call, and the         *)
(* in-memory OAuth state store.                                             *)
(*                                                                          *)
(* Every service coroutine is split at its awaits: one action per awaited   *)
(* repository call, which the database executes as one committed            *)
(* statement.  Requests are handled by concurrent tasks (Procs), each with  *)
(* its own session, so the steps of different requests interleave.  Time    *)
(* is counted in minutes.                                                   *)
(***************************************************************************)
EXTENDS Integers, Sequences, FiniteSets, TLC

(* ------------------------------ bounds --------------------------------- *)
NumProcs == 2
MaxUsers == 2
MaxTokens == 3
MaxAttempts == 1
MaxLockAttempts == 6
MaxTicks == 1
MaxStates == 2
MaxLen == 4
MaxHashes == 2

(* ------------------------- program constants --------------------------- *)
REFRESH_TOKEN_EXPIRE_DAYS == 7
ACCESS_TOKEN_EXPIRE_MINUTES == 30
LOCKOUT_THRESHOLD == 5
LOCKOUT_MINUTES == 15
STATE_EXPIRE_MINUTES == 10
MIN_PASSWORD_LENGTH == 8
TOKEN_RETENTION_DAYS == 7
ATTEMPT_RETENTION_DAYS == 90
MinutesPerDay == 24 * 60

Procs == 1..NumProcs

\* revoked_at IS NULL
NoTime == -1

(* ------------------------------ inputs --------------------------------- *)
EmailA == "a@x.com"
EmailB == "b@x.com"
Emails == {EmailA, EmailB}
GoogleIds == {"g1", "g2"}

\* passwords are sequences of characters
PwStrong == <<"A", "a", "1", "!", "a", "a", "a", "a">>
PwOther == <<"B", "b", "2", "?", "b", "b", "b", "b">>
PwNoSymbol == <<"A", "a", "1", "a", "a", "a", "a", "a">>
PwShort == <<"A", "a", "1", "!">>
Passwords == {PwStrong, PwOther, PwNoSymbol, PwShort}


(* ------------------- utils/password.py, utils/jwt.py ------------------- *)
UpperChars == {"A", "B", "C", "D", "E", "F", "G", "H", "I", "J", "K", "L", "M",
               "N", "O", "P", "Q", "R", "S", "T", "U", "V", "W", "X", "Y", "Z"}
LowerChars == {"a", "b", "c", "d", "e", "f", "g", "h", "i", "j", "k", "l", "m",
               "n", "o", "p", "q", "r", "s", "t", "u", "v", "w", "x", "y", "z"}
DigitChars == {"0", "1", "2", "3", "4", "5", "6", "7", "8", "9"}
SymbolChars == {"!", "@", "#", "$", "%", "^", "&", "*", "(", ")", "_", "+", "-",
                "=", "[", "]", "{", "}", "|", ";", ":", ",", ".", "<", ">", "?"}

re_search(class, password) == \E i \in 1..Len(password) : password[i] \in class

\* the first two checks in the opposite order
validate_password_strength_reordered(password) ==
  IF ~ re_search(UpperChars, password)
    THEN <<FALSE, "Password must contain at least one uppercase letter">>
  ELSE IF Len(password) < MIN_PASSWORD_LENGTH
    THEN <<FALSE, "Password must be at least 8 characters long">>
  ELSE IF ~ re_search(LowerChars, password)
    THEN <<FALSE, "Password must contain at least one lowercase letter">>
  ELSE IF ~ re_search(DigitChars, password)
    THEN <<FALSE, "Password must contain at least one number">>
  ELSE IF ~ re_search(SymbolChars, password)
    THEN <<FALSE,
           "Password must contain at least one special character (!@#$%^&*()_+-=[]{}|;:,.<>?)">>
  ELSE <<TRUE, "">>

\* returns <<is_valid, error_message>>; "" stands for None
validate_password_strength(password) ==
  IF Len(password) < MIN_PASSWORD_LENGTH
    THEN <<FALSE, "Password must be at least 8 characters long">>
  ELSE IF ~ re_search(UpperChars, password)
    THEN <<FALSE, "Password must contain at least one uppercase letter">>
  ELSE IF ~ re_search(LowerChars, password)
    THEN <<FALSE, "Password must contain at least one lowercase letter">>
  ELSE IF ~ re_search(DigitChars, password)
    THEN <<FALSE, "Password must contain at least one number">>
  ELSE IF ~ re_search(SymbolChars, password)
    THEN <<FALSE,
           "Password must contain at least one special character (!@#$%^&*()_+-=[]{}|;:,.<>?)">>
  ELSE <<TRUE, "">>

\* a digest that ignores the salt drawn for it
hash_password_unsalted(password, salt) ==
  [alg |-> "bcrypt", salt |-> 0, of |-> password]

\* bcrypt: the digest carries the salt; it is not the plaintext
hash_password(password, salt) == [alg |-> "bcrypt", salt |-> salt, of |-> password]
NoHash == [alg |-> "none", salt |-> 0, of |-> <<>>]
\* a stored value that is not a bcrypt digest
Malformed == [alg |-> "malformed", salt |-> 0, of |-> <<>>]

\* bcrypt.checkpw raises ValueError("Invalid salt") on a digest it cannot
\* parse, and verify_password does not catch it
verify_password_raises(hashed) == hashed.alg # "bcrypt"

\* the value verify_password returns when it returns
verify_password(plain, hashed) == hashed.alg = "bcrypt" /\ hashed.of = plain

\* SHA-256 hex digest of the plaintext secret: deterministic, collision free
hash_refresh_token(token) == <<"sha256", token>>

create_access_token(user_id, email, t) ==
  [sub |-> user_id, email |-> email,
   exp |-> t + ACCESS_TOKEN_EXPIRE_MINUTES, iat |-> t]

(* ------------------------------- state --------------------------------- *)
VARIABLES
  users,        \* table users
  tokens,       \* table refresh_tokens
  attempts,     \* table login_attempts, in insertion order
  projects,     \* table projects
  state_store,  \* oauth_state._state_store: state -> expiry
  now,          \* datetime.utcnow(), in minutes
  ticks,        \* number of clock steps taken
  nextSecret,   \* secrets.token_urlsafe: next unused refresh-token secret
  nextState,    \* secrets.token_urlsafe: next unused OAuth state
  pc,           \* per request task: the await it is suspended at
  local,        \* per request task: arguments and local variables
  result,       \* per request task: what its last call returned or raised
  vresult,      \* per caller: its last validate_state call and return value
  hist          \* history of the run, read by the properties only

vars == <<users, tokens, attempts, projects, state_store, now, ticks,
          nextSecret, nextState, pc, local, result, vresult, hist>>

dbVars == <<users, tokens, attempts, projects>>
stateVars == <<state_store, nextState, vresult>>

NoResult == [op |-> "none"]
NoLocal == [op |-> "none"]

Init ==
  /\ users = {}
  /\ tokens = {}
  /\ attempts = <<>>
  /\ projects = {}
  /\ state_store = <<>>
  /\ now = 0
  /\ ticks = 0
  /\ nextSecret = 1
  /\ nextState = 1
  /\ pc = [p \in Procs |-> "idle"]
  /\ local = [p \in Procs |-> NoLocal]
  /\ result = [p \in Procs |-> NoResult]
  /\ vresult = [p \in Procs |-> NoResult]
  /\ hist = [consumed |-> {}, succ |-> {}, signed_out |-> {}, owner |-> {},
             expiry |-> <<>>, validated |-> {}, accepted |-> <<>>]

(* --------------------------- repositories ------------------------------ *)
\* a query result is the set of matching rows: empty, or one row because
\* of the unique constraints (scalar_one_or_none)
get_by_id(user_id) == {u \in users : u.id = user_id}
get_by_email(email) == {u \in users : u.email = email}
get_by_google_id(google_id) == {u \in users : u.google_id = google_id}

get_by_token_hash(token_hash) == {r \in tokens : r.token_hash = token_hash}

get_valid_ignoring_revocation(token_hash, t) ==
  {r \in tokens : r.token_hash = token_hash /\ r.expires_at > t}

\* a lookup that still accepts a record at the instant of its expiry
get_valid_until_expiry(token_hash, t) ==
  {r \in tokens : /\ r.token_hash = token_hash
                  /\ r.revoked_at = NoTime
                  /\ r.expires_at >= t}

get_valid_by_token_hash(token_hash, t) ==
  {r \in tokens : /\ r.token_hash = token_hash
                  /\ r.revoked_at = NoTime
                  /\ r.expires_at > t}

\* UPDATE refresh_tokens SET revoked_at = :t WHERE id = :id
revoke_nothing(token, t) == tokens

\* a revocation that signs the whole account out
revoke_sessions_of_user(token, t) ==
  {IF r.user_id = token.user_id THEN [r EXCEPT !.revoked_at = t] ELSE r :
     r \in tokens}

revoke(token, t) ==
  {IF r.id = token.id THEN [r EXCEPT !.revoked_at = t] ELSE r : r \in tokens}

\* UPDATE refresh_tokens SET revoked_at = :t
\*   WHERE user_id = :user_id AND revoked_at IS NULL
revoke_all_where_valid(r, user_id, t) ==
  r.user_id = user_id /\ r.revoked_at = NoTime /\ r.expires_at > t

revoke_all_where(r, user_id, t) ==
  r.user_id = user_id /\ r.revoked_at = NoTime

\* a statement that also ends the lifetime of the rows it revokes
revoke_all_rows_expiring(user_id, t) ==
  {IF revoke_all_where(r, user_id, t)
     THEN [r EXCEPT !.revoked_at = t, !.expires_at = t] ELSE r :
     r \in tokens}

\* the table after the statement, and its rowcount
revoke_all_rows(user_id, t) ==
  {IF revoke_all_where(r, user_id, t) THEN [r EXCEPT !.revoked_at = t] ELSE r :
     r \in tokens}
revoke_all_rowcount(user_id, t) ==
  Cardinality({r \in tokens : revoke_all_where(r, user_id, t)})

\* session.commit() and session.refresh(token) of a loaded record succeed
\* only while its row is in the table
row_persistent(token) == \E r \in tokens : r.id = token.id

\* a record that is already past its expiry when it is stored
RefreshToken_expired(secret, user_id, t) ==
  [id |-> secret, user_id |-> user_id,
   token_hash |-> hash_refresh_token(secret),
   expires_at |-> t, created_at |-> t, revoked_at |-> NoTime]

\* the row a request builds for a fresh secret
RefreshToken(secret, user_id, t) ==
  [id |-> secret, user_id |-> user_id,
   token_hash |-> hash_refresh_token(secret),
   expires_at |-> t + REFRESH_TOKEN_EXPIRE_DAYS * MinutesPerDay,
   created_at |-> t, revoked_at |-> NoTime]

\* the primary key is drawn when the row is inserted
User(email, password_hash, auth_provider, google_id) ==
  [id |-> Cardinality(users) + 1, email |-> email,
   password_hash |-> password_hash, auth_provider |-> auth_provider,
   google_id |-> google_id, is_active |-> TRUE]

\* INSERT INTO users: the unique indexes on email and google_id reject a
\* duplicate ("" stands for a NULL google_id, which never collides)
\* CheckConstraint users_auth_provider_check (NoHash stands for a NULL
\* password_hash)
users_auth_provider_check(user) ==
  \/ user.auth_provider = "email" /\ user.password_hash # NoHash
  \/ user.auth_provider = "google" /\ user.google_id # ""

user_insert_unchecked(user) == TRUE

user_insert_ok(user) ==
  /\ get_by_email(user.email) = {}
  /\ user.google_id = "" \/ get_by_google_id(user.google_id) = {}
  /\ users_auth_provider_check(user)

\* an attempt row that is stored as failed whatever the outcome
LoginAttempt_failed(user_id, email, success, failure_reason, t) ==
  [user_id |-> user_id, email |-> email, success |-> FALSE,
   failure_reason |-> failure_reason, attempted_at |-> t]

LoginAttempt(user_id, email, success, failure_reason, t) ==
  [user_id |-> user_id, email |-> email, success |-> success,
   failure_reason |-> failure_reason, attempted_at |-> t]

\* a count of wrong passwords only
count_recent_wrong_passwords(user_id, minutes, t) ==
  Cardinality({i \in DOMAIN attempts :
                 /\ attempts[i].user_id = user_id
                 /\ attempts[i].failure_reason = "invalid_password"
                 /\ attempts[i].attempted_at > t - minutes})

\* a count that a successful attempt of the account starts afresh
count_failures_since_success(user_id, minutes, t) ==
  Cardinality({i \in DOMAIN attempts :
                 /\ attempts[i].user_id = user_id
                 /\ ~ attempts[i].success
                 /\ attempts[i].attempted_at > t - minutes
                 /\ \A j \in DOMAIN attempts :
                      j > i /\ attempts[j].user_id = user_id => ~ attempts[j].success})

count_recent_failures(user_id, minutes, t) ==
  Cardinality({i \in DOMAIN attempts :
                 /\ attempts[i].user_id = user_id
                 /\ ~ attempts[i].success
                 /\ attempts[i].attempted_at > t - minutes})

\* UPDATE projects SET is_default = false WHERE user_id; then true for one
clear_default(user_id, project_id) ==
  {IF pr.user_id = user_id THEN [pr EXCEPT !.is_default = FALSE] ELSE pr :
     pr \in projects}

set_as_default(user_id, project_id) ==
  {IF pr.user_id = user_id
     THEN [pr EXCEPT !.is_default = (pr.id = project_id)]
     ELSE pr : pr \in projects}

(* --------------------------- request tasks ----------------------------- *)
Res(op) ==
  [op |-> op, exc |-> "", msg |-> "", code |-> "", user |-> 0,
   access |-> <<>>, refresh |-> 0, is_new |-> FALSE, presented |-> 0,
   email |-> "", password |-> <<>>, google_id |-> "", found |-> {},
   stale |-> FALSE, later |-> FALSE, failures |-> 0]

Raise(res, exc, msg) == [res EXCEPT !.exc = exc, !.msg = msg]

Goto(p, label, loc) ==
  /\ pc' = [pc EXCEPT ![p] = label]
  /\ local' = [local EXCEPT ![p] = loc]
  /\ result' = [result EXCEPT ![p] = NoResult]

\* the call returns or raises: its outcome is handed to the caller
Return(p, res) ==
  /\ pc' = [pc EXCEPT ![p] = "done"]
  /\ local' = [local EXCEPT ![p] = NoLocal]
  /\ result' = [result EXCEPT ![p] = res]

\* the router builds the response from the outcome and the task ends
respond(p) ==
  /\ pc[p] = "done"
  /\ pc' = [pc EXCEPT ![p] = "idle"]
  /\ result' = [result EXCEPT ![p] = NoResult]
  /\ UNCHANGED <<dbVars, stateVars, now, ticks, nextSecret, local, hist>>

\* tasks that have yet to insert a row of the kind
Issuing == {q \in Procs : pc[q] \notin {"idle", "done"}}
Creating == {q \in Procs : pc[q] \in {"su_create", "oa_email", "oa_create"}}
Attempting == {q \in Procs : pc[q] \in {"si_lock", "si_record"}}
RoomForToken == nextSecret + Cardinality(Issuing) <= MaxTokens
RoomForUser == Cardinality(users) + Cardinality(Creating) < MaxUsers
RoomForAttempt(max) == Len(attempts) + Cardinality(Attempting) < max

\* token_repo.create(RefreshToken(...)) followed by the return
issue_tokens(p, res, user) ==
  /\ tokens' = tokens \cup {RefreshToken(nextSecret, user.id, now)}
  /\ nextSecret' = nextSecret + 1
  /\ Return(p, [res EXCEPT !.user = user.id, !.refresh = nextSecret,
                           !.access = create_access_token(user.id, user.email, now)])

(* ------------------------- AuthService.sign_up ------------------------- *)
\* if existing_user: raise ConflictError
email_registered_never(existing_user) == FALSE

email_registered(existing_user) == existing_user # {}

\* the email lookup ahead of the password validation
sign_up_begin_email_first(p, email, password, salt) ==
  /\ pc[p] = "idle"
  /\ LET res == [Res("sign_up") EXCEPT !.email = email, !.password = password,
                                       !.found = get_by_email(email)]
         valid == validate_password_strength(password)
     IN IF email_registered(get_by_email(email))
          THEN Return(p, Raise(res, "ConflictError", "Email already registered"))
        ELSE IF ~ valid[1]
          THEN Return(p, Raise(res, "ValueError", valid[2]))
        ELSE Goto(p, "su_create",
                  [op |-> "sign_up", res |-> res,
                   password_hash |-> hash_password(password, salt)])
  /\ UNCHANGED <<dbVars, stateVars, now, ticks, nextSecret, hist>>

\* validate_password_strength, then await user_repo.get_by_email
sign_up_begin(p, email, password, salt) ==
  /\ pc[p] = "idle"
  /\ LET res == [Res("sign_up") EXCEPT !.email = email, !.password = password,
                                       !.found = get_by_email(email)]
         valid == validate_password_strength(password)
     IN IF ~ valid[1]
          THEN Return(p, Raise(res, "ValueError", valid[2]))
        ELSE IF email_registered(get_by_email(email))
          THEN Return(p, Raise(res, "ConflictError", "Email already registered"))
        ELSE Goto(p, "su_create",
                  [op |-> "sign_up", res |-> res,
                   password_hash |-> hash_password(password, salt)])
  /\ UNCHANGED <<dbVars, stateVars, now, ticks, nextSecret, hist>>

\* await user_repo.create(user)
sign_up_create_user(p) ==
  /\ pc[p] = "su_create"
  /\ LET user == User(local[p].res.email, local[p].password_hash, "email", "")
     IN IF user_insert_ok(user)
          THEN /\ users' = users \cup {user}
               /\ Goto(p, "su_project", local[p] @@ [user |-> user])
          ELSE /\ users' = users
               /\ Return(p, Raise(local[p].res, "IntegrityError", "duplicate key"))
  /\ UNCHANGED <<tokens, attempts, projects, stateVars, now, ticks, nextSecret, hist>>

\* await project_repo.create(user_id, ProjectCreate(name="My Documents"))
sign_up_create_project(p) ==
  /\ pc[p] = "su_project"
  /\ LET project == [id |-> Cardinality(projects) + 1,
                     user_id |-> local[p].user.id, is_default |-> FALSE]
     IN /\ projects' = projects \cup {project}
        /\ Goto(p, "su_default", local[p] @@ [default_project |-> project])
  /\ UNCHANGED <<users, tokens, attempts, stateVars, now, ticks, nextSecret, hist>>

\* await project_repo.set_as_default(user.id, default_project.id)
sign_up_set_default(p) ==
  /\ pc[p] = "su_default"
  /\ projects' = set_as_default(local[p].user.id, local[p].default_project.id)
  /\ Goto(p, "su_token", local[p])
  /\ UNCHANGED <<users, tokens, attempts, stateVars, now, ticks, nextSecret, hist>>

\* await token_repo.create(refresh_token_record); return
sign_up_issue(p) ==
  /\ pc[p] = "su_token"
  /\ issue_tokens(p, local[p].res, local[p].user)
  /\ UNCHANGED <<users, attempts, projects, stateVars, now, ticks, hist>>

(* ------------------------- AuthService.sign_in ------------------------- *)
\* history: failed attempts of the account less than 15 minutes old
FailuresInWindow(user_id) ==
  Cardinality({i \in DOMAIN attempts :
                 /\ attempts[i].user_id = user_id
                 /\ attempts[i].success = FALSE
                 /\ now - attempts[i].attempted_at < LOCKOUT_MINUTES})

check_locked_above_threshold(user_id, t) ==
  count_recent_failures(user_id, LOCKOUT_MINUTES, t) > LOCKOUT_THRESHOLD

\* a lockout that looks at the failures of any age
check_account_locked_for_good(user_id, t) ==
  count_recent_failures(user_id, t + 1, t) >= LOCKOUT_THRESHOLD

check_account_locked(user_id, t) ==
  count_recent_failures(user_id, LOCKOUT_MINUTES, t) >= LOCKOUT_THRESHOLD

\* the attempt a sign_in is about to record and the error it then raises
Pending(user_id, failure_reason, exc, msg) ==
  [user_id |-> user_id, success |-> (failure_reason = ""),
   failure_reason |-> failure_reason, exc |-> exc, msg |-> msg]

\* await user_repo.get_by_email(request.email); user_id 0 stands for None
sign_in_begin(p, email, password) ==
  /\ pc[p] = "idle"
  /\ LET user == get_by_email(email)
         res == [Res("sign_in") EXCEPT !.email = email, !.password = password,
                                       !.found = user]
     IN IF user = {}
          THEN Goto(p, "si_record",
                    [op |-> "sign_in", res |-> res,
                     pending |-> Pending(0, "user_not_found", "AuthenticationError",
                                         "Invalid email or password")])
          ELSE Goto(p, "si_lock", [op |-> "sign_in", res |-> res])
  /\ UNCHANGED <<dbVars, stateVars, now, ticks, nextSecret, hist>>

sign_in_checks_leaky(user, password, locked) ==
  IF locked
    THEN Pending(user.id, "account_locked", "AccountLockedError",
                 "Account temporarily locked due to too many failed attempts")
  ELSE IF ~ verify_password(password, user.password_hash)
    THEN Pending(user.id, "invalid_password", "AuthenticationError",
                 "Invalid password")
  ELSE Pending(user.id, "", "", "")

\* the inactive check ahead of the lockout check
sign_in_checks_active_first(user, password, locked) ==
  IF ~ user.is_active
    THEN Pending(user.id, "account_inactive", "AuthenticationError",
                 "Account is inactive")
  ELSE IF locked
    THEN Pending(user.id, "account_locked", "AccountLockedError",
                 "Account temporarily locked due to too many failed attempts")
  ELSE IF user.auth_provider # "email"
    THEN Pending(user.id, "wrong_provider", "AuthenticationError",
                 "Please sign in with google")
  ELSE IF ~ verify_password(password, user.password_hash)
    THEN Pending(user.id, "invalid_password", "AuthenticationError",
                 "Invalid email or password")
  ELSE Pending(user.id, "", "", "")

\* the checks of a found user, in the order of the code
sign_in_checks(user, password, locked) ==
  IF locked
    THEN Pending(user.id, "account_locked", "AccountLockedError",
                 "Account temporarily locked due to too many failed attempts")
  ELSE IF ~ user.is_active
    THEN Pending(user.id, "account_inactive", "AuthenticationError",
                 "Account is inactive")
  ELSE IF user.auth_provider # "email"
    THEN Pending(user.id, "wrong_provider", "AuthenticationError",
                 "Please sign in with google")
  ELSE IF verify_password_raises(user.password_hash)
    THEN [Pending(user.id, "", "ValueError", "Invalid salt") EXCEPT !.success = FALSE]
  ELSE IF ~ verify_password(password, user.password_hash)
    THEN Pending(user.id, "invalid_password", "AuthenticationError",
                 "Invalid email or password")
  ELSE Pending(user.id, "", "", "")

\* await self._check_account_locked(user.id), then the checks without await;
\* an error raised by verify_password leaves sign_in at once, before any
\* attempt is recorded
sign_in_check(p) ==
  /\ pc[p] = "si_lock"
  /\ LET user == CHOOSE u \in local[p].res.found : TRUE
         res == [local[p].res EXCEPT !.failures = FailuresInWindow(user.id)]
         pending == sign_in_checks(user, res.password,
                                   check_account_locked(user.id, now))
     IN IF pending.exc = "ValueError"
          THEN Return(p, Raise(res, pending.exc, pending.msg))
          ELSE Goto(p, "si_record",
                    [op |-> "sign_in", res |-> res, pending |-> pending])
  /\ UNCHANGED <<dbVars, stateVars, now, ticks, nextSecret, hist>>

\* await self._record_attempt(...); a failure is raised after it
sign_in_record(p) ==
  /\ pc[p] = "si_record"
  /\ LET pd == local[p].pending
     IN /\ attempts' = Append(attempts,
                              LoginAttempt(pd.user_id, local[p].res.email,
                                           pd.success, pd.failure_reason, now))
        /\ IF pd.success
             THEN Goto(p, "si_token", local[p])
             ELSE Return(p, Raise(local[p].res, pd.exc, pd.msg))
  /\ UNCHANGED <<users, tokens, projects, stateVars, now, ticks, nextSecret, hist>>

\* await self._record_attempt(...) when attempt_repo.create raises: nothing
\* in _record_attempt or sign_in catches it, so it leaves sign_in
sign_in_record_fails(p) ==
  /\ pc[p] = "si_record"
  /\ Return(p, Raise(local[p].res, "SQLAlchemyError", "login_attempts insert failed"))
  /\ UNCHANGED <<dbVars, stateVars, now, ticks, nextSecret, hist>>

\* await token_repo.create(refresh_token_record); return
sign_in_issue(p) ==
  /\ pc[p] = "si_token"
  /\ issue_tokens(p, local[p].res, CHOOSE u \in local[p].res.found : TRUE)
  /\ UNCHANGED <<users, attempts, projects, stateVars, now, ticks, hist>>

(* --------------------- AuthService.refresh_tokens ---------------------- *)
\* a lookup that tells a revoked record from an unknown or expired one
refresh_tokens_begin_telling(p, refresh_token) ==
  /\ pc[p] = "idle"
  /\ LET token_record == get_valid_by_token_hash(hash_refresh_token(refresh_token), now)
         res == [Res("refresh_tokens") EXCEPT
                   !.presented = refresh_token,
                   !.stale = (refresh_token \in hist.consumed)]
     IN IF token_record = {}
          THEN Return(p, Raise(res, "AuthenticationError",
                               IF get_valid_ignoring_revocation(
                                    hash_refresh_token(refresh_token), now) # {}
                                 THEN "Refresh token revoked"
                                 ELSE "Invalid or expired refresh token"))
          ELSE Goto(p, "rf_user",
                    [op |-> "refresh_tokens", res |-> res,
                     token_record |-> CHOOSE r \in token_record : TRUE])
  /\ UNCHANGED <<dbVars, stateVars, now, ticks, nextSecret, hist>>

\* await token_repo.get_valid_by_token_hash(hash_refresh_token(refresh_token))
refresh_tokens_begin(p, refresh_token) ==
  /\ pc[p] = "idle"
  /\ LET token_record == get_valid_by_token_hash(hash_refresh_token(refresh_token), now)
         res == [Res("refresh_tokens") EXCEPT
                   !.presented = refresh_token,
                   !.stale = (refresh_token \in hist.consumed)]
     IN IF token_record = {}
          THEN Return(p, Raise(res, "AuthenticationError",
                               "Invalid or expired refresh token"))
          ELSE Goto(p, "rf_user",
                    [op |-> "refresh_tokens", res |-> res,
                     token_record |-> CHOOSE r \in token_record : TRUE])
  /\ UNCHANGED <<dbVars, stateVars, now, ticks, nextSecret, hist>>

\* the account check after the revocation: the refusal leaves the presented
\* record revoked
refresh_tokens_get_user_late(p) ==
  /\ pc[p] = "rf_user"
  /\ LET user == get_by_id(local[p].token_record.user_id)
     IN IF user = {} \/ \E u \in user : ~ u.is_active
          THEN /\ tokens' = revoke(local[p].token_record, now)
               /\ Return(p, Raise(local[p].res, "AuthenticationError",
                                  "User not found or inactive"))
          ELSE /\ tokens' = tokens
               /\ Goto(p, "rf_revoke", local[p] @@ [user |-> CHOOSE u \in user : TRUE])
  /\ UNCHANGED <<users, attempts, projects, stateVars, now, ticks, nextSecret, hist>>

\* await user_repo.get_by_id(token_record.user_id)
refresh_tokens_get_user(p) ==
  /\ pc[p] = "rf_user"
  /\ LET user == get_by_id(local[p].token_record.user_id)
     IN IF user = {} \/ \E u \in user : ~ u.is_active
          THEN Return(p, Raise(local[p].res, "AuthenticationError",
                               "User not found or inactive"))
          ELSE Goto(p, "rf_revoke", local[p] @@ [user |-> CHOOSE u \in user : TRUE])
  /\ UNCHANGED <<dbVars, stateVars, now, ticks, nextSecret, hist>>

\* await token_repo.revoke(token_record)
refresh_tokens_revoke(p) ==
  /\ pc[p] = "rf_revoke"
  /\ IF row_persistent(local[p].token_record)
       THEN /\ tokens' = revoke(local[p].token_record, now)
            /\ Goto(p, "rf_create", local[p])
       ELSE /\ tokens' = tokens
            /\ Return(p, Raise(local[p].res, "StaleDataError",
                               "UPDATE statement expected to update 1 row(s); 0 were matched"))
  /\ UNCHANGED <<users, attempts, projects, stateVars, now, ticks, nextSecret, hist>>

\* await token_repo.create(new_refresh_token_record); return
refresh_tokens_issue(p) ==
  /\ pc[p] = "rf_create"
  /\ issue_tokens(p, local[p].res, local[p].user)
  /\ hist' = [hist EXCEPT
                !.consumed = @ \cup {local[p].res.presented},
                !.succ = @ \cup {<<local[p].res.presented, nextSecret>>}]
  /\ UNCHANGED <<users, attempts, projects, stateVars, now, ticks>>

(* ------------------------- AuthService.sign_out ------------------------ *)
\* if token_record and token_record.revoked_at is None
sign_out_revokes_found(token_record) == token_record # {}

sign_out_revokes(token_record) == \E r \in token_record : r.revoked_at = NoTime

\* await token_repo.get_by_token_hash(hash_refresh_token(refresh_token))
sign_out_begin(p, refresh_token) ==
  /\ pc[p] = "idle"
  /\ LET token_record == get_by_token_hash(hash_refresh_token(refresh_token))
         res == [Res("sign_out") EXCEPT !.presented = refresh_token]
     IN IF sign_out_revokes(token_record)
          THEN /\ Goto(p, "so_revoke",
                       [op |-> "sign_out", res |-> res,
                        token_record |-> CHOOSE r \in token_record : TRUE])
               /\ hist' = hist
          ELSE /\ Return(p, res)
               /\ hist' = [hist EXCEPT !.signed_out = @ \cup {refresh_token}]
  /\ UNCHANGED <<dbVars, stateVars, now, ticks, nextSecret>>

\* await token_repo.revoke(token_record); return None
sign_out_revoke(p) ==
  /\ pc[p] = "so_revoke"
  /\ IF row_persistent(local[p].token_record)
       THEN /\ tokens' = revoke(local[p].token_record, now)
            /\ Return(p, local[p].res)
       ELSE /\ tokens' = tokens
            /\ Return(p, Raise(local[p].res, "StaleDataError",
                               "UPDATE statement expected to update 1 row(s); 0 were matched"))
  /\ hist' = [hist EXCEPT !.consumed = @ \cup {local[p].res.presented},
                          !.signed_out = @ \cup {local[p].res.presented}]
  /\ UNCHANGED <<users, attempts, projects, stateVars, now, ticks, nextSecret>>

(* ---------------- RefreshTokenRepository maintenance ------------------- *)
\* await token_repo.revoke_all_for_user(user_id): one statement and commit
revoke_all_for_user(p, user_id) ==
  /\ pc[p] = "idle"
  /\ tokens' = revoke_all_rows(user_id, now)
  /\ Return(p, [op |-> "revoke_all_for_user", exc |-> "", user |-> user_id,
                rowcount |-> revoke_all_rowcount(user_id, now)])
  /\ UNCHANGED <<users, attempts, projects, stateVars, now, ticks, nextSecret, hist>>

\* select(RefreshToken).where(RefreshToken.expires_at < cutoff_date)
delete_expired_where_stale(r, cutoff_date) ==
  r.expires_at < cutoff_date \/ r.revoked_at # NoTime

delete_expired_where(r, cutoff_date) == r.expires_at < cutoff_date

\* delete_expired(older_than_days): select the rows past the cutoff
delete_expired_select(p, older_than_days) ==
  /\ pc[p] = "idle"
  /\ LET cutoff_date == now - older_than_days * MinutesPerDay
     IN Goto(p, "de_commit",
             [op |-> "delete_expired", older_than_days |-> older_than_days,
              rows |-> {r.id : r \in {x \in tokens :
                                         delete_expired_where(x, cutoff_date)}}])
  /\ UNCHANGED <<dbVars, stateVars, now, ticks, nextSecret, hist>>

\* session.delete(token) for each selected row; session.commit()
delete_expired_commit(p) ==
  /\ pc[p] = "de_commit"
  /\ tokens' = {r \in tokens : r.id \notin local[p].rows}
  /\ Return(p, [op |-> "delete_expired", exc |-> "",
                older_than_days |-> local[p].older_than_days,
                count |-> Cardinality(local[p].rows)])
  /\ UNCHANGED <<users, attempts, projects, stateVars, now, ticks, nextSecret, hist>>

(* ---------------- LoginAttemptRepository maintenance ------------------- *)
\* delete_old(older_than_days=90): select the rows past the cutoff; a row
\* inserted later is younger than the cutoff
delete_old_select(p) ==
  /\ pc[p] = "idle"
  /\ LET cutoff_date == now - ATTEMPT_RETENTION_DAYS * MinutesPerDay
     IN Goto(p, "do_commit",
             [op |-> "delete_old", cutoff_date |-> cutoff_date,
              count |-> Cardinality({i \in DOMAIN attempts :
                                       attempts[i].attempted_at < cutoff_date})])
  /\ UNCHANGED <<dbVars, stateVars, now, ticks, nextSecret, hist>>

Kept(attempt, cutoff_date) == attempt.attempted_at >= cutoff_date

\* session.delete(attempt) for each selected row; session.commit()
delete_old_commit(p) ==
  /\ pc[p] = "do_commit"
  /\ attempts' = SelectSeq(attempts, LAMBDA a : Kept(a, local[p].cutoff_date))
  /\ Return(p, [op |-> "delete_old", exc |-> "", count |-> local[p].count])
  /\ UNCHANGED <<users, tokens, projects, stateVars, now, ticks, nextSecret, hist>>

(* --------------- OAuthService.get_or_create_google_user ---------------- *)
\* await user_repo.get_by_google_id(google_id)
oauth_begin(p, google_id, email) ==
  /\ pc[p] = "idle"
  /\ LET user == get_by_google_id(google_id)
         res == [Res("get_or_create_google_user") EXCEPT
                   !.google_id = google_id, !.email = email,
                   !.later = (\E o \in hist.owner : o[1] = google_id)]
     IN IF user # {}
          THEN Goto(p, "oa_token",
                    [op |-> res.op, res |-> res, user |-> CHOOSE u \in user : TRUE])
          ELSE Goto(p, "oa_email", [op |-> res.op, res |-> res])
  /\ UNCHANGED <<dbVars, stateVars, now, ticks, nextSecret, hist>>

\* if existing: raise ConflictError(...)
email_conflict_never(existing) == FALSE

email_conflict(existing) == existing # {}

\* the accounts after the branch that raises: it writes nothing
collision_links(existing, google_id) ==
  {IF u \in existing
     THEN [u EXCEPT !.google_id = google_id, !.auth_provider = "google"]
     ELSE u : u \in users}

collision_accounts(existing, google_id) == users

\* await user_repo.get_by_email(email)
oauth_check_email(p) ==
  /\ pc[p] = "oa_email"
  /\ LET existing == get_by_email(local[p].res.email)
         res == [local[p].res EXCEPT !.found = existing]
     IN IF email_conflict(existing)
          THEN /\ users' = collision_accounts(existing, res.google_id)
               /\ Return(p, [Raise(res, "ConflictError",
                                   "This email is registered with a password. Please sign in with email.")
                             EXCEPT !.code = "EMAIL_EXISTS_DIFFERENT_PROVIDER"])
          ELSE /\ users' = users
               /\ Goto(p, "oa_create", [local[p] EXCEPT !.res = res])
  /\ UNCHANGED <<tokens, attempts, projects, stateVars, now, ticks, nextSecret, hist>>

\* await user_repo.create(user)
oauth_create_user(p) ==
  /\ pc[p] = "oa_create"
  /\ LET user == User(local[p].res.email, NoHash, "google", local[p].res.google_id)
     IN IF user_insert_ok(user)
          THEN /\ users' = users \cup {user}
               /\ Goto(p, "oa_token",
                       [local[p] EXCEPT !.res.is_new = TRUE] @@ [user |-> user])
          ELSE /\ users' = users
               /\ Return(p, Raise(local[p].res, "IntegrityError", "duplicate key"))
  /\ UNCHANGED <<tokens, attempts, projects, stateVars, now, ticks, nextSecret, hist>>

\* await token_repo.create(refresh_token_record); return
oauth_issue(p) ==
  /\ pc[p] = "oa_token"
  /\ issue_tokens(p, local[p].res, local[p].user)
  /\ hist' = [hist EXCEPT !.owner =
                IF \E o \in @ : o[1] = local[p].res.google_id
                  THEN @
                  ELSE @ \cup {<<local[p].res.google_id, local[p].user.id>>}]
  /\ UNCHANGED <<users, attempts, projects, stateVars, now, ticks>>

(* ---------------------- UserRepository.update -------------------------- *)
\* user.is_active = False; await user_repo.update(user): the commit of an
\* account that an operator switches off
deactivate(user_id) ==
  /\ \E u \in users : u.id = user_id /\ u.is_active
  /\ users' = {IF u.id = user_id THEN [u EXCEPT !.is_active = FALSE] ELSE u :
                 u \in users}
  /\ UNCHANGED <<tokens, attempts, projects, stateVars, now, ticks, nextSecret,
                 pc, local, result, hist>>

(* ------------------- callers of utils/password.py ---------------------- *)
\* a caller holds one password and the digests it has obtained for it; its
\* last call and the value it returned are in result
PasswordCall(p, res) ==
  /\ pc[p] = "idle" /\ local[p].op = "password"
  /\ result' = [result EXCEPT ![p] = res]
  /\ UNCHANGED <<dbVars, stateVars, now, ticks, nextSecret, pc, hist>>

\* bcrypt.gensalt(rounds=12) draws 16 random bytes: a repeated draw has
\* probability 2^-128 and is left out, each call gets a salt not drawn before
gensalt(p) == Len(local[p].digests) + 1

\* hash_password(password)
hash_password_call(p) ==
  /\ local[p].op = "password" /\ Len(local[p].digests) < MaxHashes
  /\ LET digest == hash_password(local[p].password, gensalt(p))
     IN /\ local' = [local EXCEPT ![p].digests = Append(@, digest)]
        /\ PasswordCall(p, [op |-> "hash_password", value |-> digest])

\* verify_password(plain, hashed)
verify_password_call(p, plain, hashed) ==
  /\ local' = local
  /\ PasswordCall(p, [op |-> "verify_password", plain |-> plain,
                      hashed |-> hashed,
                      value |-> verify_password(plain, hashed)])

\* validate_password_strength(password)
validate_password_strength_call(p) ==
  /\ local' = local
  /\ PasswordCall(p, [op |-> "validate_password_strength",
                      password |-> local[p].password,
                      value |-> validate_password_strength(local[p].password)])

(* ------------------------ utils/oauth_state.py ------------------------- *)
\* dict.get: reads the entry and leaves it in place
dict_get(store, key) ==
  IF key \in DOMAIN store
    THEN [store |-> store, value |-> store[key], exc |-> ""]
    ELSE [store |-> store, value |-> 0, exc |-> "KeyError"]

\* a pop that empties the store
dict_pop_clear(store, key) ==
  IF key \in DOMAIN store
    THEN [store |-> <<>>, value |-> store[key], exc |-> ""]
    ELSE [store |-> store, value |-> 0, exc |-> "KeyError"]

\* dict.pop without a default
dict_pop(store, key) ==
  IF key \in DOMAIN store
    THEN [store |-> [k \in DOMAIN store \ {key} |-> store[k]],
          value |-> store[key], exc |-> ""]
    ELSE [store |-> store, value |-> 0, exc |-> "KeyError"]

\* generate_state(): the caller keeps the returned state
generate_state(p) ==
  /\ state_store' = [k \in DOMAIN state_store \cup {nextState} |->
                       IF k = nextState THEN now + STATE_EXPIRE_MINUTES
                                        ELSE state_store[k]]
  /\ nextState' = nextState + 1
  /\ vresult' = [vresult EXCEPT ![p] = [op |-> "generate_state", state |-> nextState]]
  /\ hist' = [hist EXCEPT !.expiry =
                [k \in DOMAIN @ \cup {nextState} |->
                   IF k = nextState THEN now + STATE_EXPIRE_MINUTES ELSE @[k]]]
  /\ UNCHANGED <<dbVars, now, ticks, nextSecret, pc, local, result>>

\* validate_state(state): no await between the lookup and the pop
validate_state(p, state) ==
  /\ LET seen == [generated |-> state \in DOMAIN hist.expiry,
                  validated |-> state \in hist.validated,
                  stored |-> state \in DOMAIN state_store,
                  unexpired |-> state \in DOMAIN hist.expiry /\ now < hist.expiry[state]]
         res == [op |-> "validate_state", state |-> state, seen |-> seen]
     IN IF state \notin DOMAIN state_store
          THEN /\ state_store' = state_store
               /\ vresult' = [vresult EXCEPT ![p] = res @@ [ok |-> FALSE, exc |-> ""]]
               /\ hist' = [hist EXCEPT !.validated = @ \cup {state}]
          ELSE LET popped == dict_pop(state_store, state)
                   ok == popped.exc = "" /\ now < popped.value
               IN /\ state_store' = popped.store
                  /\ vresult' = [vresult EXCEPT ![p] =
                                   res @@ [ok |-> ok, exc |-> popped.exc]]
                  /\ hist' = [hist EXCEPT
                                !.validated = @ \cup {state},
                                !.accepted = IF ok THEN Append(@, state) ELSE @]
  /\ UNCHANGED <<dbVars, now, ticks, nextSecret, nextState, pc, local, result>>

\* dict.pop(key, None): a missing key is not an error
dict_pop_default(store, key) ==
  [store |-> [k \in DOMAIN store \ {key} |-> store[k]], exc |-> ""]

\* exp < now
state_expired_always(exp, t) == TRUE

state_expired(exp, t) == exp < t

\* for s in expired: _state_store.pop(s, None)
RECURSIVE pop_each(_, _)
pop_each(store, keys) ==
  IF keys = {} THEN [store |-> store, exc |-> ""]
  ELSE LET s == CHOOSE k \in keys : TRUE
           popped == dict_pop_default(store, s)
       IN IF popped.exc # "" THEN popped ELSE pop_each(popped.store, keys \ {s})

\* cleanup_expired_states(): no await between the scan and the pops
cleanup_expired_states(p) ==
  /\ LET expired == {s \in DOMAIN state_store : state_expired(state_store[s], now)}
         popped == pop_each(state_store, expired)
     IN /\ state_store' = popped.store
        /\ vresult' = [vresult EXCEPT ![p] =
                         [op |-> "cleanup_expired_states", removed |-> expired,
                          exc |-> popped.exc]]
  /\ UNCHANGED <<dbVars, now, ticks, nextSecret, nextState, pc, local, result, hist>>

(* ------------------------------- clock --------------------------------- *)
Tick(d) ==
  /\ ticks < MaxTicks
  /\ now' = now + d
  /\ ticks' = ticks + 1
  /\ UNCHANGED <<dbVars, stateVars, nextSecret, pc, local, result, hist>>

(* --------------------------- specifications ---------------------------- *)
Secrets == 0..(nextSecret - 1)

\* a finished call is answered before anything else is scheduled
Answered == \A q \in Procs : pc[q] # "done"

sign_up_steps(p) ==
  \/ sign_up_create_user(p)
  \/ sign_up_create_project(p)
  \/ sign_up_set_default(p)
  \/ sign_up_issue(p)

sign_in_steps(p) ==
  \/ sign_in_check(p)
  \/ sign_in_record(p)
  \/ sign_in_issue(p)

refresh_tokens_steps(p) ==
  \/ refresh_tokens_get_user(p)
  \/ refresh_tokens_revoke(p)
  \/ refresh_tokens_issue(p)

oauth_steps(p) ==
  \/ oauth_check_email(p)
  \/ oauth_create_user(p)
  \/ oauth_issue(p)

\* token lifecycle: accounts are signed up between requests; refresh_tokens
\* and sign_out calls of two request tasks race on every token issued so
\* far, and any step may be followed by the passing of one token lifetime
Racers == {p \in Procs : p <= 2}
Quiet == \A q \in Procs : pc[q] = "idle"

TokenStep(p) ==
  \/ \E e \in Emails :
       /\ RoomForToken /\ RoomForUser
       /\ Quiet /\ get_by_email(e) = {}
       /\ sign_up_begin(p, e, PwStrong, 1)
  \/ sign_up_steps(p)
  \/ \E t \in Secrets : RoomForToken /\ refresh_tokens_begin(p, t)
  \/ refresh_tokens_steps(p)
  \/ \E t \in Secrets : sign_out_begin(p, t)
  \/ sign_out_revoke(p)

NextTokens ==
  \/ Answered /\ \E p \in Racers : TokenStep(p)
  \/ Answered /\ Tick(REFRESH_TOKEN_EXPIRE_DAYS * MinutesPerDay)
  \/ \E p \in Procs : respond(p)

SpecTokens == Init /\ [][NextTokens]_vars

\* sign-in and lockout: a password account, a Google account and a series
\* of sign-ins, handled one request at a time by task 1; the sign-ins that
\* find no password account are few, those of the password account are
\* enough to lock it, and the clock moves by the length of the lockout window
CannotSucceed(email, password) ==
  \A u \in get_by_email(email) :
    ~ (u.auth_provider = "email" /\ verify_password(password, u.password_hash))

SignInInputs == {<<EmailA, PwStrong>>, <<EmailA, PwOther>>, <<EmailB, PwOther>>}

NoPasswordAccount(email) == \A u \in get_by_email(email) : u.auth_provider # "email"
StrayAttempts ==
  {i \in DOMAIN attempts :
     attempts[i].failure_reason \in {"user_not_found", "wrong_provider"}}

SignInStep(p) ==
  \/ RoomForToken /\ RoomForUser /\ sign_up_begin(p, EmailA, PwStrong, 1)
  \/ sign_up_steps(p)
  \/ /\ RoomForToken /\ RoomForUser
     /\ get_by_google_id("g1") = {}
     /\ oauth_begin(p, "g1", EmailB)
  \/ oauth_steps(p)
  \/ \E c \in SignInInputs :
       /\ RoomForAttempt(MaxLockAttempts)
       /\ NoPasswordAccount(c[1]) => Cardinality(StrayAttempts) < MaxAttempts
       /\ RoomForToken \/ CannotSucceed(c[1], c[2])
       /\ sign_in_begin(p, c[1], c[2])
  \/ sign_in_steps(p)

NextSignIn ==
  \/ Answered /\ SignInStep(1)
  \/ pc[1] = "idle" /\ Tick(LOCKOUT_MINUTES)
  \/ respond(1)

SpecSignIn == Init /\ [][NextSignIn]_vars

\* sign-in with an unreliable ledger: as above without the Google account
\* and the clock, and every write of a login attempt may fail
LedgerStep(p) ==
  \/ RoomForToken /\ RoomForUser /\ sign_up_begin(p, EmailA, PwStrong, 1)
  \/ sign_up_steps(p)
  \/ \E c \in SignInInputs :
       /\ RoomForAttempt(MaxLockAttempts)
       /\ NoPasswordAccount(c[1]) => Cardinality(StrayAttempts) < MaxAttempts
       /\ RoomForToken \/ CannotSucceed(c[1], c[2])
       /\ sign_in_begin(p, c[1], c[2])
  \/ sign_in_steps(p)
  \/ sign_in_record_fails(p)

NextLedger ==
  \/ Answered /\ LedgerStep(1)
  \/ respond(1)

SpecLedger == Init /\ [][NextLedger]_vars

\* mass sign-out: a Google account that logs in repeatedly and a password
\* account, their tokens signed out and expired, and
\* revoke_all_for_user called for either account, one request at a time
RevokeAllStep(p) ==
  \/ /\ RoomForToken
     /\ get_by_google_id("g1") # {} \/ RoomForUser
     /\ oauth_begin(p, "g1", EmailA)
  \/ oauth_steps(p)
  \/ /\ RoomForToken /\ RoomForUser /\ get_by_email(EmailB) = {}
     /\ sign_up_begin(p, EmailB, PwStrong, 1)
  \/ sign_up_steps(p)
  \/ \E t \in Secrets : sign_out_begin(p, t)
  \/ sign_out_revoke(p)
  \/ \E u \in users : revoke_all_for_user(p, u.id)

NextRevokeAll ==
  \/ Answered /\ RevokeAllStep(1)
  \/ Answered /\ Tick(REFRESH_TOKEN_EXPIRE_DAYS * MinutesPerDay)
  \/ respond(1)

SpecRevokeAll == Init /\ [][NextRevokeAll]_vars

\* retention sweeps next to requests: an account signed up between
\* requests, sign_in, refresh_tokens and sign_out calls of two tasks, and
\* either sweep started and committed at any point in between; the clock
\* moves between requests, past the retention window of tokens or attempts
SweepTicks ==
  {(REFRESH_TOKEN_EXPIRE_DAYS + TOKEN_RETENTION_DAYS + 1) * MinutesPerDay,
   (ATTEMPT_RETENTION_DAYS + 1) * MinutesPerDay}

SweepStep(p) ==
  \/ /\ RoomForToken /\ RoomForUser /\ Quiet /\ get_by_email(EmailA) = {}
     /\ sign_up_begin(p, EmailA, PwStrong, 1)
  \/ sign_up_steps(p)
  \/ \E pw \in {PwStrong, PwOther} :
       /\ RoomForAttempt(MaxAttempts)
       /\ RoomForToken \/ CannotSucceed(EmailA, pw)
       /\ sign_in_begin(p, EmailA, pw)
  \/ sign_in_steps(p)
  \/ \E t \in Secrets : RoomForToken /\ refresh_tokens_begin(p, t)
  \/ refresh_tokens_steps(p)
  \/ \E t \in Secrets : sign_out_begin(p, t)
  \/ sign_out_revoke(p)
  \/ delete_expired_select(p, TOKEN_RETENTION_DAYS)
  \/ delete_expired_commit(p)
  \/ delete_old_select(p)
  \/ delete_old_commit(p)

NextSweeps ==
  \/ Answered /\ \E p \in Racers : SweepStep(p)
  \/ Quiet /\ \E d \in SweepTicks : Tick(d)
  \/ \E p \in Procs : respond(p)

SpecSweeps == Init /\ [][NextSweeps]_vars

\* stored digests: the table holds one password account whose stored
\* digest is either the digest of its password or not a digest at all, and
\* task 1 signs in with the right and a wrong password
Digests == {hash_password(PwStrong, 1), Malformed}

InitDigest ==
  /\ \E d \in Digests :
       users = {[id |-> 1, email |-> EmailA, password_hash |-> d,
                 auth_provider |-> "email", google_id |-> "", is_active |-> TRUE]}
  /\ tokens = {}
  /\ attempts = <<>>
  /\ projects = {}
  /\ state_store = <<>>
  /\ now = 0
  /\ ticks = 0
  /\ nextSecret = 1
  /\ nextState = 1
  /\ pc = [p \in Procs |-> "idle"]
  /\ local = [p \in Procs |-> NoLocal]
  /\ result = [p \in Procs |-> NoResult]
  /\ vresult = [p \in Procs |-> NoResult]
  /\ hist = [consumed |-> {}, succ |-> {}, signed_out |-> {}, owner |-> {},
             expiry |-> <<>>, validated |-> {}, accepted |-> <<>>]

DigestStep(p) ==
  \/ \E pw \in {PwStrong, PwOther} :
       /\ RoomForAttempt(MaxLockAttempts)
       /\ RoomForToken \/ CannotSucceed(EmailA, pw)
       /\ sign_in_begin(p, EmailA, pw)
  \/ sign_in_steps(p)

NextDigest ==
  \/ Answered /\ DigestStep(1)
  \/ pc[1] = "idle" /\ Tick(LOCKOUT_MINUTES)
  \/ respond(1)

SpecDigest == InitDigest /\ [][NextDigest]_vars

\* accounts: sign-ups and Google logins competing for emails and ids; a
\* request that is sure to be refused needs no room in the tables
AccountStep(p) ==
  \/ \E e \in Emails, pw \in {PwStrong, PwShort} :
       /\ (RoomForToken /\ RoomForUser) \/ get_by_email(e) # {}
       /\ sign_up_begin(p, e, pw, 1)
  \/ sign_up_steps(p)
  \/ \E g \in GoogleIds, e \in Emails :
       /\ \/ RoomForToken /\ (get_by_google_id(g) # {} \/ RoomForUser)
          \/ get_by_google_id(g) = {} /\ get_by_email(e) # {}
       /\ oauth_begin(p, g, e)
  \/ oauth_steps(p)

NextAccounts ==
  \/ Answered /\ \E p \in Procs : AccountStep(p)
  \/ \E p \in Procs : respond(p)

SpecAccounts == Init /\ [][NextAccounts]_vars

\* account linking one request at a time: the same sign-ups and Google
\* logins, handled by task 1 alone
NextLinking ==
  \/ Answered /\ AccountStep(1)
  \/ respond(1)

SpecLinking == Init /\ [][NextLinking]_vars

\* token chains: a password account and a Google account obtain tokens by
\* sign_up, sign_in and Google login and refresh them one request at a
\* time; tokens are revoked by rotation and expire, and either account may
\* be switched off between two requests
ChainStep(p) ==
  \/ /\ RoomForToken /\ RoomForUser /\ get_by_email(EmailA) = {}
     /\ sign_up_begin(p, EmailA, PwStrong, 1)
  \/ sign_up_steps(p)
  \/ /\ RoomForAttempt(MaxAttempts)
     /\ RoomForToken \/ CannotSucceed(EmailA, PwStrong)
     /\ sign_in_begin(p, EmailA, PwStrong)
  \/ sign_in_steps(p)
  \/ /\ RoomForToken
     /\ get_by_google_id("g1") # {} \/ RoomForUser
     /\ oauth_begin(p, "g1", EmailB)
  \/ oauth_steps(p)
  \/ \E t \in Secrets : RoomForToken /\ refresh_tokens_begin(p, t)
  \/ refresh_tokens_steps(p)

NextChain ==
  \/ Answered /\ ChainStep(1)
  \/ Quiet /\ \E u \in users : deactivate(u.id)
  \/ Quiet /\ Tick(REFRESH_TOKEN_EXPIRE_DAYS * MinutesPerDay)
  \/ respond(1)

SpecChain == Init /\ [][NextChain]_vars

\* the password utilities: a caller holds any password made of up to MaxLen
\* characters, one of each class and one of no class, as it is or filled up
\* with blanks to the minimum length; it hashes the password, verifies it
\* and another password against the digests, and validates its strength
PasswordChars == {"A", "a", "1", "!", " "}
Blanks(n) == [i \in 1..n |-> " "]
PasswordInputs ==
  LET short == UNION {[1..n -> PasswordChars] : n \in 0..MaxLen}
  IN short \cup {s \o Blanks(MIN_PASSWORD_LENGTH - Len(s)) : s \in short}

InitPassword ==
  /\ users = {}
  /\ tokens = {}
  /\ attempts = <<>>
  /\ projects = {}
  /\ state_store = <<>>
  /\ now = 0
  /\ ticks = 0
  /\ nextSecret = 1
  /\ nextState = 1
  /\ pc = [p \in Procs |-> "idle"]
  /\ \E password \in PasswordInputs :
       local = [p \in Procs |->
                  IF p = 1 THEN [op |-> "password", password |-> password,
                                 digests |-> <<>>]
                           ELSE NoLocal]
  /\ result = [p \in Procs |-> NoResult]
  /\ vresult = [p \in Procs |-> NoResult]
  /\ hist = [consumed |-> {}, succ |-> {}, signed_out |-> {}, owner |-> {},
             expiry |-> <<>>, validated |-> {}, accepted |-> <<>>]

NextPassword ==
  \/ hash_password_call(1)
  \/ \E plain \in {local[1].password, PwOther}, i \in DOMAIN local[1].digests :
       verify_password_call(1, plain, local[1].digests[i])
  \/ validate_password_strength_call(1)

SpecPassword == InitPassword /\ [][NextPassword]_vars

\* the order of the sign-in checks: a password account and a Google
\* account, either of which may be switched off between two requests, and a
\* series of sign-ins for one of the two emails, enough to lock its account,
\* with the right and a wrong password, one request at a time
OneTarget(email) == \A i \in DOMAIN attempts : attempts[i].email = email

OrderStep(p) ==
  \/ /\ RoomForToken /\ RoomForUser /\ get_by_email(EmailA) = {}
     /\ sign_up_begin(p, EmailA, PwStrong, 1)
  \/ sign_up_steps(p)
  \/ /\ RoomForToken /\ RoomForUser /\ get_by_google_id("g1") = {}
     /\ oauth_begin(p, "g1", EmailB)
  \/ oauth_steps(p)
  \/ \E c \in SignInInputs :
       /\ RoomForAttempt(MaxLockAttempts) /\ OneTarget(c[1])
       /\ RoomForToken \/ CannotSucceed(c[1], c[2])
       /\ sign_in_begin(p, c[1], c[2])
  \/ sign_in_steps(p)

NextOrder ==
  \/ Answered /\ OrderStep(1)
  \/ Quiet /\ \E u \in users : deactivate(u.id)
  \/ respond(1)

SpecOrder == Init /\ [][NextOrder]_vars

\* the token retention sweep on its own: a Google account logs in
\* repeatedly, its tokens are signed out and age by a little more than one
\* token lifetime or by more than lifetime plus retention, and
\* delete_expired runs with no retention or the default one, one call at a
\* time
RetentionDays == {0, TOKEN_RETENTION_DAYS}
RetentionTicks ==
  {(REFRESH_TOKEN_EXPIRE_DAYS + 1) * MinutesPerDay,
   (REFRESH_TOKEN_EXPIRE_DAYS + TOKEN_RETENTION_DAYS + 1) * MinutesPerDay}

RetentionStep(p) ==
  \/ /\ RoomForToken
     /\ get_by_google_id("g1") # {} \/ RoomForUser
     /\ oauth_begin(p, "g1", EmailA)
  \/ oauth_steps(p)
  \/ \E t \in Secrets : sign_out_begin(p, t)
  \/ sign_out_revoke(p)
  \/ \E n \in RetentionDays : delete_expired_select(p, n)
  \/ delete_expired_commit(p)

NextRetention ==
  \/ Answered /\ RetentionStep(1)
  \/ Quiet /\ \E d \in RetentionTicks : Tick(d)
  \/ respond(1)

SpecRetention == Init /\ [][NextRetention]_vars

\* the lockout window: the accounts and sign-ins of the check order above,
\* with one sign-in more than it takes to lock an account and a clock that
\* moves by the length of the window between two requests
WindowStep(p) ==
  \/ /\ RoomForToken /\ RoomForUser /\ get_by_email(EmailA) = {}
     /\ sign_up_begin(p, EmailA, PwStrong, 1)
  \/ sign_up_steps(p)
  \/ /\ RoomForToken /\ RoomForUser /\ get_by_google_id("g1") = {}
     /\ oauth_begin(p, "g1", EmailB)
  \/ oauth_steps(p)
  \/ \E c \in SignInInputs :
       /\ RoomForAttempt(MaxLockAttempts + 1) /\ OneTarget(c[1])
       /\ RoomForToken \/ CannotSucceed(c[1], c[2])
       /\ sign_in_begin(p, c[1], c[2])
  \/ sign_in_steps(p)

NextWindow ==
  \/ Answered /\ WindowStep(1)
  \/ Quiet /\ \E u \in users : deactivate(u.id)
  \/ Quiet /\ Tick(LOCKOUT_MINUTES)
  \/ respond(1)

SpecWindow == Init /\ [][NextWindow]_vars

\* sessions: the five service operations that touch refresh tokens, called
\* by two request tasks in any interleaving: a password account signs up
\* and signs in, a Google account logs in, and any issued token is
\* refreshed or signed out
SessionStep(p) ==
  \/ /\ RoomForToken /\ RoomForUser /\ Quiet /\ get_by_email(EmailA) = {}
     /\ sign_up_begin(p, EmailA, PwStrong, 1)
  \/ sign_up_steps(p)
  \/ /\ RoomForAttempt(MaxAttempts)
     /\ RoomForToken \/ CannotSucceed(EmailA, PwStrong)
     /\ sign_in_begin(p, EmailA, PwStrong)
  \/ sign_in_steps(p)
  \/ /\ RoomForToken /\ Quiet
     /\ get_by_google_id("g1") # {} \/ RoomForUser
     /\ oauth_begin(p, "g1", EmailB)
  \/ oauth_steps(p)
  \/ \E t \in Secrets : RoomForToken /\ refresh_tokens_begin(p, t)
  \/ refresh_tokens_steps(p)
  \/ \E t \in Secrets : sign_out_begin(p, t)
  \/ sign_out_revoke(p)

NextSessions ==
  \/ Answered /\ \E p \in Racers : SessionStep(p)
  \/ \E p \in Procs : respond(p)

SpecSessions == Init /\ [][NextSessions]_vars

\* the OAuth state store and its callers: two request tasks generate and
\* validate states and run the cleanup, in any order
States == 0..(nextState - 1)

\* the clock moves up to the expiry of a state or just past it
StateTicks == {STATE_EXPIRE_MINUTES, STATE_EXPIRE_MINUTES + 1}

NextState ==
  \/ \E p \in Racers : nextState <= MaxStates /\ generate_state(p)
  \/ \E p \in Racers, s \in States : validate_state(p, s)
  \/ \E p \in Racers : cleanup_expired_states(p)
  \/ \E d \in StateTicks : Tick(d)

SpecState == Init /\ [][NextState]_vars

(* ----------------------------- properties ------------------------------ *)
Finished(p, op) == pc[p] = "done" /\ result[p].op = op
Succeeded(p, op) == Finished(p, op) /\ result[p].exc = ""
RefreshPcs == {"rf_user", "rf_revoke", "rf_create"}

\* C1: a refresh_tokens call made with a token that an earlier successful
\* refresh_tokens consumed, or that sign_out revoked, finds no valid record
\* and raises AuthenticationError, whatever happened in between.
C1_ConsumedTokenRejected ==
  \A p \in Procs :
    /\ pc[p] \in RefreshPcs => ~ local[p].res.stale
    /\ Finished(p, "refresh_tokens") /\ result[p].stale
         => result[p].exc = "AuthenticationError"

C1_Witness ==
  \E p \in Procs :
    /\ Finished(p, "refresh_tokens") /\ result[p].stale
    /\ result[p].exc = "AuthenticationError"
    /\ \E s \in hist.succ : s[1] = result[p].presented

\* C2: a refresh token is single-use even concurrently: of all the
\* refresh_tokens calls that present one token at most one succeeds, so no
\* token has two successors.
C2_SingleUseConcurrently ==
  \A t \in Secrets : Cardinality({s \in hist.succ : s[1] = t}) <= 1

\* C3: the step that completes a successful refresh_tokens call leaves the
\* presented record revoked and has added exactly one record, which belongs
\* to the same account, is valid, carries the digest of the returned secret
\* and a digest different from the presented record's.
C3_RotationStep(p) ==
  pc[p] = "rf_create" /\ pc'[p] = "done" =>
    LET old == local[p].token_record
        new == tokens' \ tokens
    IN /\ result'[p].exc = ""
       /\ \E r \in tokens' : r.id = old.id /\ r.revoked_at # NoTime
       /\ Cardinality(new) = 1
       /\ \A n \in new :
            /\ n.user_id = old.user_id
            /\ n.revoked_at = NoTime /\ n.expires_at > now'
            /\ n.token_hash = hash_refresh_token(result'[p].refresh)
            /\ n.token_hash # old.token_hash

C3_Rotation == [][\A p \in Procs : C3_RotationStep(p)]_vars

C3_Witness ==
  \E p \in Procs :
    /\ Succeeded(p, "refresh_tokens")
    /\ \E r \in tokens : /\ r.token_hash = hash_refresh_token(result[p].presented)
                          /\ r.revoked_at # NoTime

\* C7: sign_out never raises; a sign_out with a token no record matches
\* changes nothing, and a sign_out with a token that an earlier sign_out
\* call already handled returns at once and leaves the tables, and so the
\* revocation timestamp the first call set, as they were.
C7_SignOutStep(p) ==
  /\ pc'[p] = "done" /\ result'[p].op = "sign_out" => result'[p].exc = ""
  /\ pc[p] = "idle" /\ pc'[p] = "so_revoke" =>
       LET t == local'[p].res.presented
       IN /\ get_by_token_hash(hash_refresh_token(t)) # {}
          /\ t \notin hist.signed_out
  /\ pc[p] = "idle" /\ pc'[p] = "done" /\ result'[p].op = "sign_out" =>
       dbVars' = dbVars

C7_SignOutIdempotent == [][\A p \in Procs : C7_SignOutStep(p)]_vars

C7_Witness ==
  \E p \in Procs :
    /\ Succeeded(p, "sign_out")
    /\ result[p].presented \in hist.consumed
    /\ \E q \in Procs : q # p /\ pc[q] = "idle"
    /\ \E r \in tokens : /\ r.token_hash = hash_refresh_token(result[p].presented)
                          /\ r.revoked_at # NoTime /\ r.revoked_at < now

GenericMessage == "Invalid email or password"
WrongPassword(res) ==
  \E u \in res.found : /\ u.auth_provider = "email"
                        /\ ~ verify_password(res.password, u.password_hash)
RightPassword(res) == \E u \in res.found : verify_password(res.password, u.password_hash)

\* C4: a sign_in whose lockout check finds 5 or more failed attempts of the
\* account in the trailing 15 minutes records account_locked, raises
\* AccountLockedError and returns no tokens, also with the right password;
\* it never reaches the token issue.
C4_LockedOut ==
  \A p \in Procs :
    /\ pc[p] = "si_token" => local[p].res.failures < LOCKOUT_THRESHOLD
    /\ pc[p] = "si_record" /\ local[p].res.failures >= LOCKOUT_THRESHOLD
         => local[p].pending.failure_reason = "account_locked"
    /\ Finished(p, "sign_in") /\ result[p].failures >= LOCKOUT_THRESHOLD
         => /\ result[p].exc = "AccountLockedError"
            /\ result[p].refresh = 0 /\ result[p].access = <<>>
            /\ hash_refresh_token(nextSecret) \notin {r.token_hash : r \in tokens}

\* five failed sign-ins of the account, then the right password
C4_Witness ==
  \E p \in Procs :
    /\ Finished(p, "sign_in") /\ RightPassword(result[p])
    /\ result[p].exc = "AccountLockedError"
    /\ result[p].failures = LOCKOUT_THRESHOLD
    /\ Len(attempts) = LOCKOUT_THRESHOLD + 1
    /\ \A i \in 1..LOCKOUT_THRESHOLD : attempts[i].failure_reason = "invalid_password"

\* C5 as stated: in every reachable state a sign_in with an unregistered
\* email and a sign_in with a registered email and a wrong password both
\* raise AuthenticationError with the message "Invalid email or password".
C5_Original ==
  \A p \in Procs :
    Finished(p, "sign_in") /\ (result[p].found = {} \/ WrongPassword(result[p]))
      => result[p].exc = "AuthenticationError" /\ result[p].msg = GenericMessage

\* C5 amended: the two outcomes are identical when the registered account
\* is an active password account that is not locked out.
C5_Amended ==
  \A p \in Procs :
    LET unlocked_password_account ==
          /\ result[p].failures < LOCKOUT_THRESHOLD
          /\ \A u \in result[p].found : u.is_active /\ u.auth_provider = "email"
    IN (Finished(p, "sign_in") /\
        (result[p].found = {} \/ (WrongPassword(result[p]) /\ unlocked_password_account)))
         => (result[p].exc = "AuthenticationError" /\ result[p].msg = GenericMessage)

\* a wrong password is answered like the unknown email answered before it
C5_Witness ==
  \E p \in Procs :
    /\ Finished(p, "sign_in") /\ WrongPassword(result[p])
    /\ result[p].exc = "AuthenticationError" /\ result[p].msg = GenericMessage
    /\ \E i \in DOMAIN attempts : attempts[i].failure_reason = "user_not_found"

EmailTaken(email) == \E u \in users : u.email = email

\* C6 as stated: a sign_up with an email that already has an account raises
\* ConflictError (and creates nothing).
C6_OriginalStep(p) ==
  pc[p] = "idle" /\ pc'[p] # "idle" /\ pc'[p] # "oa_email" /\ pc'[p] # "oa_token" =>
    LET res == IF pc'[p] = "done" THEN result'[p] ELSE local'[p].res
    IN res.op = "sign_up" /\ EmailTaken(res.email)
         => /\ pc'[p] = "done" /\ res.exc = "ConflictError"
            /\ dbVars' = dbVars

C6_Original == [][\A p \in Procs : C6_OriginalStep(p)]_vars

\* C6 amended: a sign_up with an email that already has an account creates
\* no account, project or refresh-token record; it raises ConflictError when
\* the password passes validate_password_strength, and the validation error
\* otherwise.
C6_AmendedStep(p) ==
  pc[p] = "idle" /\ pc'[p] # "idle" /\ pc'[p] # "oa_email" /\ pc'[p] # "oa_token" =>
    LET res == IF pc'[p] = "done" THEN result'[p] ELSE local'[p].res
    IN res.op = "sign_up" /\ EmailTaken(res.email)
         => /\ pc'[p] = "done"
            /\ dbVars' = dbVars
            /\ res.exc = IF validate_password_strength(res.password)[1]
                            THEN "ConflictError" ELSE "ValueError"

C6_Amended == [][\A p \in Procs : C6_AmendedStep(p)]_vars

C6_Witness ==
  \E p \in Procs :
    /\ Finished(p, "sign_up") /\ result[p].exc = "ConflictError"
    /\ Cardinality({u \in users : u.email = result[p].email}) = 1
    /\ Cardinality(users) = Cardinality(projects)

\* C10: once a get_or_create_google_user call for an external id has
\* succeeded, every later call with that id succeeds with is_new = false and
\* returns that same account; no two accounts carry the same external id.
C10_OneAccountPerGoogleId ==
  /\ \A p \in Procs :
       /\ pc[p] \in {"oa_email", "oa_create"} => ~ local[p].res.later
       /\ Finished(p, "get_or_create_google_user") /\ result[p].later
            => /\ result[p].exc = "" /\ result[p].is_new = FALSE
               /\ <<result[p].google_id, result[p].user>> \in hist.owner
  /\ \A u1, u2 \in users :
       u1.google_id # "" /\ u1.google_id = u2.google_id => u1 = u2

C10_Witness ==
  \E p \in Procs :
    /\ Succeeded(p, "get_or_create_google_user")
    /\ result[p].later /\ ~ result[p].is_new
    /\ Cardinality({r \in tokens : r.user_id = result[p].user}) >= 2

Accepted(state) == Cardinality({i \in DOMAIN hist.accepted : hist.accepted[i] = state})
Validated(p) == vresult[p].op = "validate_state"

\* C8: validate_state returns true at most once per state, and only for a
\* state that was generated, was not validated before and has not expired.
C8_StateSingleUse ==
  /\ \A s \in States : Accepted(s) <= 1
  /\ \A p \in Procs :
       Validated(p) /\ vresult[p].ok
         => /\ vresult[p].seen.generated
            /\ ~ vresult[p].seen.validated
            /\ vresult[p].seen.unexpired

\* a state accepted once is refused the second time
C8_Witness ==
  \E p \in Procs :
    /\ Validated(p) /\ ~ vresult[p].ok
    /\ vresult[p].seen.validated /\ vresult[p].seen.unexpired
    /\ Accepted(vresult[p].state) = 1

\* C9: of two callers that validate the same stored state at most one is
\* told true, and no validate_state call fails with an error.
C9_AtomicTakeAndCheck ==
  /\ \A p \in Procs : Validated(p) => vresult[p].exc = ""
  /\ \A p, q \in Procs :
       (p # q /\ Validated(p) /\ Validated(q) /\ vresult[p].state = vresult[q].state)
         => ~ (vresult[p].ok /\ vresult[q].ok)

C9_Witness ==
  \E p, q \in Procs :
    /\ p # q /\ Validated(p) /\ Validated(q)
    /\ vresult[p].state = vresult[q].state
    /\ vresult[p].ok /\ ~ vresult[q].ok
    /\ vresult[q].seen.generated /\ vresult[q].seen.unexpired

\* an account with the email whose auth-method is password
PasswordAccount(email) ==
  \E u \in users : u.email = email /\ u.auth_provider = "email"

\* C11: a get_or_create_google_user call that finds no account with the
\* external id goes on to the email lookup without writing, and when the
\* email belongs to a password account the lookup raises ConflictError with
\* code EMAIL_EXISTS_DIFFERENT_PROVIDER and leaves every table as it was;
\* the password account stays in place in between.
C11_CollisionStep(p) ==
  /\ (/\ pc[p] = "idle" /\ pc'[p] # "idle"
      /\ local'[p].op = "get_or_create_google_user"
      /\ get_by_google_id(local'[p].res.google_id) = {})
       => pc'[p] = "oa_email" /\ dbVars' = dbVars
  /\ (pc[p] = "oa_email" /\ pc'[p] # "oa_email" /\ PasswordAccount(local[p].res.email))
       => /\ pc'[p] = "done"
          /\ result'[p].exc = "ConflictError"
          /\ result'[p].code = "EMAIL_EXISTS_DIFFERENT_PROVIDER"
          /\ dbVars' = dbVars
  /\ \A e \in Emails : PasswordAccount(e) => PasswordAccount(e)'

C11_EmailCollision == [][\A p \in Procs : C11_CollisionStep(p)]_vars

C11_Witness ==
  \E p \in Procs :
    /\ Finished(p, "get_or_create_google_user")
    /\ result[p].code = "EMAIL_EXISTS_DIFFERENT_PROVIDER"
    /\ \E u \in result[p].found : u.auth_provider = "email" /\ u \in users
    /\ get_by_google_id(result[p].google_id) = {}
    /\ Cardinality(users) = 1 /\ Cardinality(tokens) = 1

PasswordShape(u) ==
  u.password_hash # NoHash /\ u.auth_provider = "email" /\ u.google_id = ""
ExternalShape(u) ==
  u.google_id # "" /\ u.auth_provider = "google" /\ u.password_hash = NoHash

\* C12: every account is either a password account (digest, auth-method
\* email, no external id) or an external account (external id, auth-method
\* google, no digest), never both or neither, and no step changes an
\* account that exists: no identity is ever attached to it.
C12_OneAuthMethod ==
  /\ [](\A u \in users : PasswordShape(u) # ExternalShape(u))
  /\ [][\A u \in users : u \in users']_vars

\* both kinds of account exist and a Google login was stopped at the
\* password account's email
C12_Witness ==
  /\ \E u \in users : PasswordShape(u)
  /\ \E u \in users : ExternalShape(u)
  /\ \E p \in Procs : Finished(p, "get_or_create_google_user") /\ result[p].exc = "ConflictError"

Valid(r) == r.revoked_at = NoTime /\ r.expires_at > now

C13_ConflictOnlyForPassword ==
  \A p \in Procs :
    LET res == result[p]
        password_account == \E u \in res.found : u.auth_provider = "email"
    IN (Finished(p, "get_or_create_google_user") /\ ~ (res.exc = "" /\ ~ res.is_new))
         => /\ res.exc = "ConflictError" => password_account
            /\ ~ password_account
                 => /\ res.exc = "" /\ res.is_new
                    /\ \E u \in users : /\ u.id = res.user
                                          /\ u.google_id = res.google_id
                                          /\ u.auth_provider = "google"

Revoked(secret) ==
  \E r \in tokens : r.token_hash = hash_refresh_token(secret) /\ r.revoked_at # NoTime

\* C14: a refresh_tokens call that is about to persist the successor has
\* already revoked the presented record, and in every state every record
\* that has a successor is revoked.
C14_RevokedBeforeSuccessor ==
  /\ \A p \in Procs : pc[p] = "rf_create" => Revoked(local[p].res.presented)
  /\ \A s \in hist.succ :
       /\ Revoked(s[1])
       /\ \E n \in tokens : n.token_hash = hash_refresh_token(s[2])

\* one rotation is complete and the next has revoked its record and is
\* about to persist the successor
C14_Witness ==
  /\ hist.succ # {}
  /\ \E p \in Procs :
       /\ pc[p] = "rf_create" /\ Revoked(local[p].res.presented)
       /\ \E s \in hist.succ : s[2] = local[p].res.presented

\* C16: revoke is idempotent: a step that applies revoke to a record that
\* is already revoked leaves the refresh-token table, and so the record's
\* revocation timestamp, unchanged.
C16_RevokeStep(p) ==
  (/\ pc[p] \in {"rf_revoke", "so_revoke"} /\ pc'[p] # pc[p]
   /\ Revoked(local[p].res.presented))
    => tokens' = tokens

C16_RevokeIdempotent == [][\A p \in Procs : C16_RevokeStep(p)]_vars

\* C15: recording the login attempt is best-effort: a sign_in of an
\* active password account that is not locked out, made with the right
\* password, completes with tokens and a persisted refresh-token record,
\* whether or not the ledger write succeeds.
C15_BestEffortLedger ==
  \A p \in Procs :
    LET res == result[p]
        checks_pass ==
          /\ res.failures < LOCKOUT_THRESHOLD
          /\ \E u \in res.found : /\ u.is_active /\ u.auth_provider = "email"
                                    /\ verify_password(res.password, u.password_hash)
    IN (Finished(p, "sign_in") /\ checks_pass)
         => /\ res.exc = "" /\ res.refresh # 0
            /\ \E r \in tokens : r.token_hash = hash_refresh_token(res.refresh)

RevokeAllReturns(p) ==
  pc[p] = "idle" /\ pc'[p] = "done" /\ result'[p].op = "revoke_all_for_user"
ValidAt(r, t) == r.revoked_at = NoTime /\ r.expires_at > t

\* what C17 says of the records in both versions: every valid record of the
\* account is revoked, afterwards no record of the account is valid, and
\* the records of other accounts are unchanged
C17_Records(p) ==
  LET a == result'[p].user
  IN /\ \A r \in tokens : r.user_id = a /\ ValidAt(r, now)
          => \E n \in tokens' : n.id = r.id /\ n.revoked_at # NoTime
     /\ \A n \in tokens' : n.user_id = a
          => get_valid_by_token_hash(n.token_hash, now)' = {}
     /\ {r \in tokens : r.user_id # a} = {n \in tokens' : n.user_id # a}
     /\ {r.id : r \in tokens} = {n.id : n \in tokens'}

\* C17 as stated: revoke_all_for_user(A) returns exactly the number of
\* records of A that were valid (not revoked, not expired) when it ran.
C17_OriginalStep(p) ==
  RevokeAllReturns(p) =>
    /\ C17_Records(p)
    /\ result'[p].rowcount =
         Cardinality({r \in tokens : r.user_id = result'[p].user /\ ValidAt(r, now)})

C17_Original == [][\A p \in Procs : C17_OriginalStep(p)]_vars

\* C17 amended: revoke_all_for_user(A) returns the number of records of A
\* that were not revoked when it ran, expired ones included, and stamps
\* each of them; the rest as stated.
C17_AmendedStep(p) ==
  RevokeAllReturns(p) =>
    /\ C17_Records(p)
    /\ result'[p].rowcount =
         Cardinality({r \in tokens : r.user_id = result'[p].user /\ r.revoked_at = NoTime})
    /\ \A r \in tokens : r.user_id = result'[p].user /\ r.revoked_at = NoTime
         => \E n \in tokens' : n.id = r.id /\ n.revoked_at = now

C17_Amended == [][\A p \in Procs : C17_AmendedStep(p)]_vars

\* the call counted an expired record next to a valid one, and the other
\* account keeps a valid record
C17_Witness ==
  \E p \in Procs :
    /\ Finished(p, "revoke_all_for_user") /\ result[p].rowcount = 2
    /\ \E r \in tokens : r.user_id = result[p].user /\ r.expires_at <= now
    /\ \E r \in tokens : r.user_id = result[p].user /\ r.expires_at > now
    /\ \E r \in tokens : r.user_id # result[p].user /\ Valid(r)

Requests == {"sign_in", "refresh_tokens", "sign_out"}

\* C18: a retention sweep may start and commit at any step of a sign_in,
\* refresh_tokens or sign_out call without making the call fail: the call
\* ends as it does without sweeps, in success or in AuthenticationError or
\* AccountLockedError, sign_out always in success.
C18_SweepsHarmless ==
  \A p \in Procs :
    (pc[p] = "done" /\ result[p].op \in Requests)
      => /\ result[p].exc \in {"", "AuthenticationError", "AccountLockedError"}
         /\ result[p].op = "sign_out" => result[p].exc = ""

\* C19: verify_password fails closed: a sign_in of an active password
\* account that is not locked out and whose stored digest is malformed
\* ends in AuthenticationError with the generic message, and the failed
\* attempt is the last one recorded.
C19_FailsClosed ==
  \A p \in Procs :
    LET res == result[p]
        malformed_digest ==
          /\ res.failures < LOCKOUT_THRESHOLD
          /\ \E u \in res.found : /\ u.is_active /\ u.auth_provider = "email"
                                    /\ u.password_hash = Malformed
    IN (Finished(p, "sign_in") /\ malformed_digest)
         => /\ res.exc = "AuthenticationError" /\ res.msg = GenericMessage
            /\ attempts # <<>>
            /\ attempts[Len(attempts)].failure_reason = "invalid_password"

Issuers == {"sign_up", "sign_in", "refresh_tokens", "get_or_create_google_user"}
Presentable(t) ==
  \E r \in tokens : /\ r.token_hash = hash_refresh_token(t)
                    /\ r.revoked_at = NoTime /\ now < r.expires_at

\* C21: the secret a successful sign_up, sign_in, refresh_tokens or
\* get_or_create_google_user returns has a stored record of the returned
\* account that is neither revoked nor expired; a refresh_tokens call is
\* refused at its lookup only if the presented secret has no such record,
\* after the lookup only if the owning account is not active, and otherwise
\* succeeds, so the secret it returns can be presented in turn.
C21_ChainStep(p) ==
  /\ pc[p] = "idle" /\ pc'[p] = "done" /\ result'[p].op = "refresh_tokens"
       => ~ Presentable(result'[p].presented)
  /\ pc[p] = "rf_user" /\ pc'[p] = "done"
       => \A u \in get_by_id(local[p].token_record.user_id) : ~ u.is_active
  /\ pc[p] \in {"rf_revoke", "rf_create"} /\ pc'[p] = "done"
       => pc[p] = "rf_create" /\ result'[p].exc = "" /\ result'[p].refresh # 0

C21_Refreshable ==
  /\ [](\A p \in Procs :
          pc[p] = "done" /\ result[p].op \in Issuers /\ result[p].exc = ""
            => /\ Presentable(result[p].refresh)
               /\ \A r \in get_by_token_hash(hash_refresh_token(result[p].refresh)) :
                    r.user_id = result[p].user)
  /\ [][\A p \in Procs : C21_ChainStep(p)]_vars

\* a refresh_tokens call succeeds with the secret an earlier refresh_tokens
\* call returned
C21_Witness ==
  \E p \in Procs :
    /\ Succeeded(p, "refresh_tokens")
    /\ \E s \in hist.succ : s[2] = result[p].presented
    /\ <<result[p].presented, result[p].refresh>> \in hist.succ

\* C22: in every reachable state, under every interleaving of concurrent
\* sign_up and get_or_create_google_user calls for the same email or the
\* same external id, no two accounts have the same email and no two
\* accounts have the same external id.
C22_UniqueKeys ==
  \A u1, u2 \in users :
    u1 # u2 =>
      /\ u1.email # u2.email
      /\ u1.google_id = "" \/ u1.google_id # u2.google_id

\* two calls passed their lookups together and the insert of the second
\* was refused, once for an email and once for an external id
C22_Witness ==
  \E p \in Procs :
    /\ pc[p] = "done" /\ result[p].exc = "IntegrityError"
    /\ \/ /\ result[p].op = "sign_up"
          /\ Cardinality(get_by_email(result[p].email)) = 1
       \/ /\ result[p].op = "get_or_create_google_user"
          /\ Cardinality(get_by_google_id(result[p].google_id)) = 1
          /\ get_by_email(result[p].email) = {}

PasswordCaller(p) == local[p].op = "password"

RuleHolds(password) ==
  <<Len(password) >= MIN_PASSWORD_LENGTH,
    \E i \in DOMAIN password : password[i] \in UpperChars,
    \E i \in DOMAIN password : password[i] \in LowerChars,
    \E i \in DOMAIN password : password[i] \in DigitChars,
    \E i \in DOMAIN password : password[i] \in SymbolChars>>
RuleReason ==
  <<"Password must be at least 8 characters long",
    "Password must contain at least one uppercase letter",
    "Password must contain at least one lowercase letter",
    "Password must contain at least one number",
    "Password must contain at least one special character (!@#$%^&*()_+-=[]{}|;:,.<>?)">>
FailedRules(password) == {k \in 1..5 : ~ RuleHolds(password)[k]}
FirstFailed(password) ==
  CHOOSE k \in FailedRules(password) : \A j \in FailedRules(password) : k <= j

\* C24: validate_password_strength returns (true, no reason) exactly when
\* the length, uppercase, lowercase, digit and symbol rules all hold, and
\* otherwise (false, the reason of the first rule, in that order, that does
\* not hold).
C24_FirstFailingRule ==
  \A p \in Procs :
    result[p].op = "validate_password_strength" =>
      LET password == result[p].password
      IN IF FailedRules(password) = {}
           THEN result[p].value = <<TRUE, "">>
           ELSE result[p].value = <<FALSE, RuleReason[FirstFailed(password)]>>

\* a password that is too short and has no uppercase letter is refused for
\* its length
C24_Witness ==
  \E p \in Procs :
    /\ result[p].op = "validate_password_strength"
    /\ {1, 2} \subseteq FailedRules(result[p].password)
    /\ result[p].value = <<FALSE, RuleReason[1]>>

\* the outcome the order unknown email, lockout, inactive account, wrong
\* provider, password mismatch gives a finished sign_in: <<reason, error>>
ExpectedOutcome(res) ==
  IF res.found = {} THEN <<"user_not_found", "AuthenticationError">>
  ELSE LET user == CHOOSE u \in res.found : TRUE
       IN IF res.failures >= LOCKOUT_THRESHOLD
            THEN <<"account_locked", "AccountLockedError">>
          ELSE IF ~ user.is_active
            THEN <<"account_inactive", "AuthenticationError">>
          ELSE IF user.auth_provider # "email"
            THEN <<"wrong_provider", "AuthenticationError">>
          ELSE IF ~ verify_password(res.password, user.password_hash)
            THEN <<"invalid_password", "AuthenticationError">>
          ELSE <<"", "">>

\* C25: a sign_in ends with the outcome of the first check, in the order
\* unknown email, lockout, inactive account, wrong provider, password
\* mismatch, that does not pass, and the attempt it recorded carries that
\* check's reason; a locked account that is also inactive or not a password
\* account gets AccountLockedError and the reason account_locked.
C25_CheckOrder ==
  \A p \in Procs :
    Finished(p, "sign_in") =>
      LET last == attempts[Len(attempts)]
          expected == ExpectedOutcome(result[p])
      IN /\ result[p].exc = expected[2]
         /\ last.email = result[p].email
         /\ last.failure_reason = expected[1]
         /\ last.success = (expected[1] = "")

\* a Google account that is switched off and locked is told it is locked
C25_Witness ==
  \E p \in Procs :
    /\ Finished(p, "sign_in") /\ result[p].exc = "AccountLockedError"
    /\ \E u \in result[p].found : ~ u.is_active /\ u.auth_provider = "google"
    /\ attempts[Len(attempts)].failure_reason = "account_locked"

SignInPcs == {"si_lock", "si_record", "si_token"}

\* C26: every sign_in call appends exactly one login attempt, in one step;
\* the attempt has success = true exactly when the call goes on to issue
\* and return tokens, and a sign_in stores a refresh-token record exactly
\* when it has recorded that success: a call that records a failure stores
\* and returns no token.
C26_SignInStep(p) ==
  /\ pc[p] = "idle" /\ pc'[p] \in SignInPcs
       => pc'[p] \in {"si_lock", "si_record"} /\ dbVars' = dbVars
  /\ pc[p] = "si_lock" /\ pc'[p] # "si_lock"
       => pc'[p] = "si_record" /\ dbVars' = dbVars
  /\ pc[p] = "si_record" /\ pc'[p] # "si_record"
       => /\ Len(attempts') = Len(attempts) + 1
          /\ SubSeq(attempts', 1, Len(attempts)) = attempts
          /\ attempts'[Len(attempts')].email = local[p].res.email
          /\ attempts'[Len(attempts')].success = (pc'[p] = "si_token")
          /\ tokens' = tokens
          /\ pc'[p] = "done"
               => result'[p].exc # "" /\ result'[p].refresh = 0
                  /\ result'[p].access = <<>>
  /\ pc[p] = "si_token" /\ pc'[p] # "si_token"
       => /\ attempts' = attempts
          /\ pc'[p] = "done" /\ result'[p].exc = ""
          /\ tokens' = tokens \cup
                 {r \in tokens' : r.token_hash = hash_refresh_token(result'[p].refresh)}
          /\ Cardinality(tokens') = Cardinality(tokens) + 1

C26_OneAttemptPerSignIn == [][\A p \in Procs : C26_SignInStep(p)]_vars

\* a sign_in has returned tokens after an earlier one was refused
C26_Witness ==
  \E p \in Procs :
    /\ Succeeded(p, "sign_in")
    /\ Len(attempts) >= 2
    /\ attempts[Len(attempts)].success /\ ~ attempts[Len(attempts) - 1].success
    /\ get_by_token_hash(hash_refresh_token(result[p].refresh)) # {}

\* C27: sign_up validates the password before it looks the email up: with a
\* weak password it raises the validation error, citing the first violated
\* rule, whether or not the email is registered, and only with a strong
\* password the conflict error; a sign_up that ends with either error has
\* written nothing: accounts, projects and refresh-token records are as the
\* call found them.
C27_SignUpStep(p) ==
  pc'[p] = "done" /\ pc[p] # "done" /\ result'[p].op = "sign_up" =>
    LET res == result'[p]
        valid == validate_password_strength(res.password)
    IN /\ ~ valid[1] => res.exc = "ValueError" /\ res.msg = valid[2]
       /\ res.exc = "ConflictError" => valid[1] /\ get_by_email(res.email) # {}
       /\ res.exc \in {"ValueError", "ConflictError"}
            => /\ pc[p] = "idle"
               /\ users' = users /\ projects' = projects /\ tokens' = tokens

C27_ValidationFirst == [][\A p \in Procs : C27_SignUpStep(p)]_vars

\* a weak password for a registered email is refused for the password
C27_Witness ==
  \E p \in Procs :
    /\ Finished(p, "sign_up") /\ result[p].exc = "ValueError"
    /\ get_by_email(result[p].email) # {}
    /\ result[p].msg = "Password must be at least 8 characters long"

\* the three ways a presented secret can fail the lookup
UnknownToken(t) == get_by_token_hash(hash_refresh_token(t)) = {}
RevokedToken(t) ==
  \E r \in get_by_token_hash(hash_refresh_token(t)) : r.revoked_at # NoTime
ExpiredToken(t) ==
  \E r \in get_by_token_hash(hash_refresh_token(t)) : r.expires_at <= now

\* what the caller of refresh_tokens gets to see
Observable(res) ==
  [exc |-> res.exc, msg |-> res.msg, code |-> res.code, user |-> res.user,
   access |-> res.access, refresh |-> res.refresh]
UniformRefusal ==
  [exc |-> "AuthenticationError", msg |-> "Invalid or expired refresh token",
   code |-> "", user |-> 0, access |-> <<>>, refresh |-> 0]

\* C28: a refresh_tokens call whose presented token is unknown, expired or
\* revoked is refused at the lookup, and what the caller sees is the same
\* AuthenticationError with the same message in all three cases.
C28_RefusalStep(p) ==
  pc[p] = "idle" /\ pc'[p] \in {"rf_user", "done"}
  /\ (IF pc'[p] = "done" THEN result'[p].op ELSE local'[p].op) = "refresh_tokens"
    => LET t == IF pc'[p] = "done" THEN result'[p].presented
                                   ELSE local'[p].res.presented
       IN UnknownToken(t) \/ ExpiredToken(t) \/ RevokedToken(t)
            => pc'[p] = "done" /\ Observable(result'[p]) = UniformRefusal

C28_UniformRefusal == [][\A p \in Procs : C28_RefusalStep(p)]_vars

\* an expired token that was never revoked has been refused
C28_Witness ==
  \E p \in Procs :
    /\ Finished(p, "refresh_tokens")
    /\ Observable(result[p]) = UniformRefusal
    /\ ExpiredToken(result[p].presented) /\ ~ RevokedToken(result[p].presented)

\* C29: a refresh_tokens call that raises AuthenticationError has not
\* written to the refresh-token store: it is refused at the token lookup or
\* at the account check, both of which come before the revocation, so when
\* the owning account is missing or inactive the presented record is not
\* revoked and no record is added.
C29_RefusalStep(p) ==
  /\ (pc[p] = "idle" /\ pc'[p] = "rf_user") => tokens' = tokens
  /\ (pc[p] = "rf_user" /\ pc'[p] # "rf_user") => tokens' = tokens
  /\ (/\ pc[p] # "done" /\ pc'[p] = "done"
      /\ result'[p].op = "refresh_tokens"
      /\ result'[p].exc = "AuthenticationError")
       => (pc[p] \in {"idle", "rf_user"} /\ tokens' = tokens)

C29_RefusalWritesNothing == [][\A p \in Procs : C29_RefusalStep(p)]_vars

\* the token of an account that was switched off has been refused and its
\* record is still neither revoked nor expired
C29_Witness ==
  \E p \in Procs :
    /\ Finished(p, "refresh_tokens")
    /\ result[p].exc = "AuthenticationError"
    /\ result[p].msg = "User not found or inactive"
    /\ Presentable(result[p].presented)
    /\ \E r \in get_by_token_hash(hash_refresh_token(result[p].presented)) :
         \E u \in get_by_id(r.user_id) : ~ u.is_active

\* C30: get_valid_by_token_hash(d) returns the record with digest d exactly
\* when such a record exists, its revocation timestamp is null and the
\* current time is strictly before its expiry, and nothing otherwise;
\* get_by_token_hash(d) returns the record with digest d whatever its
\* state. The calls of refresh_tokens and sign_out proceed with the record
\* of the presented secret.
C30_Lookups ==
  /\ \A t \in Secrets :
       LET d == hash_refresh_token(t)
           stored == {r \in tokens : r.token_hash = d}
       IN /\ Cardinality(stored) <= 1
          /\ get_by_token_hash(d) = stored
          /\ get_valid_by_token_hash(d, now) \subseteq stored
          /\ \A r \in stored :
               r \in get_valid_by_token_hash(d, now)
                 <=> (r.revoked_at = NoTime /\ now < r.expires_at)
  /\ \A p \in Procs :
       pc[p] \in {"rf_user", "so_revoke"} =>
         local[p].token_record.token_hash = hash_refresh_token(local[p].res.presented)

\* a record that was never revoked is refused at the instant of its expiry
\* and is still found by get_by_token_hash
C30_Witness ==
  \E p \in Procs :
    /\ Finished(p, "refresh_tokens") /\ result[p].exc = "AuthenticationError"
    /\ \E r \in get_by_token_hash(hash_refresh_token(result[p].presented)) :
         r.revoked_at = NoTime /\ r.expires_at = now
    /\ get_valid_by_token_hash(hash_refresh_token(result[p].presented), now) = {}

ExpiredMoreThan(r, days) == r.expires_at < now - days * MinutesPerDay

\* C31: delete_expired(N) removes exactly the records whose expiry lies
\* more than N days in the past, changes no other record and returns the
\* number removed; for N >= 0 no removed record is valid, and a revoked
\* record that has not expired stays.
C31_SweepStep(p) ==
  pc[p] = "de_commit" /\ pc'[p] = "done" =>
    LET n == local[p].older_than_days
        removed == tokens \ tokens'
    IN /\ tokens' \subseteq tokens
       /\ removed = {r \in tokens : ExpiredMoreThan(r, n)}
       /\ result'[p].exc = "" /\ result'[p].count = Cardinality(removed)
       /\ n >= 0 => \A r \in removed : ~ Valid(r)
       /\ \A r \in tokens : r.revoked_at # NoTime /\ r.expires_at > now => r \in tokens'

C31_RetentionSweep == [][\A p \in Procs : C31_SweepStep(p)]_vars

\* a sweep has removed a record and kept a revoked one that is unexpired,
\* an expired one inside the retention window and a valid one
C31_Witness ==
  \E p \in Procs :
    /\ Finished(p, "delete_expired") /\ result[p].count >= 1
    /\ Cardinality(tokens) < nextSecret - 1
    /\ \E r \in tokens : r.revoked_at # NoTime /\ r.expires_at > now
    /\ \E r \in tokens : Valid(r)

\* the attempts of an account that were refused, for whatever reason, less
\* than the given number of minutes ago
RefusedWithin(user_id, minutes) ==
  {i \in DOMAIN attempts :
     /\ attempts[i].user_id = user_id
     /\ attempts[i].failure_reason # ""
     /\ now - attempts[i].attempted_at < minutes}

\* C32: count_recent_failures(A, m) is the number of attempts recorded for
\* account A with success = false in the trailing m minutes, whatever their
\* failure reason; successes, failures that are older and failures recorded
\* without an account id are not counted for any account.
C32_FailureCount ==
  \A u \in users :
    /\ count_recent_failures(u.id, LOCKOUT_MINUTES, now)
         = Cardinality(RefusedWithin(u.id, LOCKOUT_MINUTES))
    /\ \A i \in RefusedWithin(u.id, LOCKOUT_MINUTES) : ~ attempts[i].success
    /\ \A i \in DOMAIN attempts :
         attempts[i].user_id = u.id /\ i \notin RefusedWithin(u.id, LOCKOUT_MINUTES)
           => attempts[i].success \/ attempts[i].attempted_at <= now - LOCKOUT_MINUTES

\* a Google account with two counted failures, one as wrong provider and
\* one as inactive, next to an older failure and a failure recorded for its
\* email before the account existed
C32_Witness ==
  \E u \in users :
    /\ count_recent_failures(u.id, LOCKOUT_MINUTES, now) = 2
    /\ {attempts[i].failure_reason : i \in RefusedWithin(u.id, LOCKOUT_MINUTES)}
         = {"wrong_provider", "account_inactive"}
    /\ \E i \in DOMAIN attempts :
         attempts[i].user_id = u.id /\ attempts[i].attempted_at <= now - LOCKOUT_MINUTES
    /\ \E i \in DOMAIN attempts :
         attempts[i].user_id = 0 /\ attempts[i].email = u.email

\* C33: after a validate_state(s) call s is not in the store, whatever the
\* call returned, also when it returned false because s had expired; every
\* other stored state is still stored with its expiry, and nothing is added.
C33_ValidateStep(p) ==
  vresult'[p] # vresult[p] /\ vresult'[p].op = "validate_state" =>
    LET s == vresult'[p].state
    IN /\ s \notin DOMAIN state_store'
       /\ DOMAIN state_store' = DOMAIN state_store \ {s}
       /\ \A k \in DOMAIN state_store' : state_store'[k] = state_store[k]

C33_ValidateConsumes == [][\A p \in Procs : C33_ValidateStep(p)]_vars

\* a stored state that had expired has been refused and is gone, and
\* another state is still stored
C33_Witness ==
  \E p \in Procs :
    /\ Validated(p) /\ ~ vresult[p].ok
    /\ vresult[p].seen.generated /\ ~ vresult[p].seen.validated
    /\ ~ vresult[p].seen.unexpired /\ vresult[p].seen.stored
    /\ vresult[p].state \notin DOMAIN state_store
    /\ DOMAIN state_store # {}

\* C34: cleanup_expired_states removes exactly the stored states whose
\* expiry lies before the current time and keeps every other entry with its
\* expiry, so a state that validate_state would accept is still stored and
\* still accepted afterwards; the call does not raise, whatever
\* validate_state calls came before it.
C34_CleanupStep(p) ==
  (/\ vresult'[p].op = "cleanup_expired_states"
   /\ \A q \in Procs \ {p} : vresult'[q] = vresult[q]
   /\ vresult'[p] # vresult[p] \/ state_store' # state_store)
    => /\ vresult'[p].exc = ""
       /\ DOMAIN state_store'
            = {s \in DOMAIN state_store : ~ (state_store[s] < now)}
       /\ \A s \in DOMAIN state_store' : state_store'[s] = state_store[s]
       /\ \A s \in DOMAIN state_store :
            now < state_store[s]
              => s \in DOMAIN state_store' /\ now' < state_store'[s]

C34_CleanupExact == [][\A p \in Procs : C34_CleanupStep(p)]_vars

\* a cleanup has removed an expired state and kept an unexpired one, and
\* the removed state has since been presented and refused
C34_Witness ==
  \E p, q \in Procs :
    /\ vresult[p].op = "cleanup_expired_states" /\ vresult[p].removed # {}
    /\ \E s \in DOMAIN state_store : now < state_store[s]
    /\ Validated(q) /\ vresult[q].state \in vresult[p].removed
    /\ ~ vresult[q].ok /\ vresult[q].exc = ""

ActivePasswordAccount(res) ==
  \E u \in res.found : u.is_active /\ u.auth_provider = "email"

\* C35: a sign_in with the right password for an active password account
\* whose lockout check finds fewer than 5 failed attempts in the trailing
\* 15 minutes succeeds and returns tokens whose record is stored, also when
\* the account was locked before: the lockout ends once enough failures
\* have left the window.
C35_LockoutEnds ==
  \A p \in Procs :
    (/\ Finished(p, "sign_in")
     /\ ActivePasswordAccount(result[p]) /\ RightPassword(result[p])
     /\ result[p].failures < LOCKOUT_THRESHOLD)
      => /\ result[p].exc = ""
         /\ result[p].refresh # 0 /\ result[p].access # <<>>
         /\ \E r \in get_by_token_hash(hash_refresh_token(result[p].refresh)) :
              r.user_id = result[p].user /\ Valid(r)

\* an account that was refused as locked signs in 15 minutes later
C35_Witness ==
  \E p \in Procs :
    /\ Succeeded(p, "sign_in") /\ result[p].failures = 0
    /\ \E i \in DOMAIN attempts :
         /\ attempts[i].user_id = result[p].user
         /\ attempts[i].failure_reason = "account_locked"
         /\ attempts[i].attempted_at = now - LOCKOUT_MINUTES

\* the failed attempts of the account of a finished sign_in that were
\* recorded in the trailing 15 minutes before the call's own attempt
PriorFailures(res) ==
  {i \in 1..(Len(attempts) - 1) :
     /\ attempts[i].user_id \in {u.id : u \in res.found}
     /\ ~ attempts[i].success
     /\ attempts[i].attempted_at > now - LOCKOUT_MINUTES}

C36_Decision ==
  \A p \in Procs :
    Finished(p, "sign_in") /\ result[p].found # {}
      => (result[p].exc = "AccountLockedError"
            <=> Cardinality(PriorFailures(result[p])) >= LOCKOUT_THRESHOLD)

C36_SuccessStep ==
  (Len(attempts') > Len(attempts) /\ attempts'[Len(attempts')].success)
    => /\ SubSeq(attempts', 1, Len(attempts)) = attempts
       /\ \A u \in users :
            count_recent_failures(u.id, LOCKOUT_MINUTES, now)'
              = count_recent_failures(u.id, LOCKOUT_MINUTES, now)

\* C36: a successful sign_in leaves the recorded failures as they are and
\* an account's sign_in is refused as locked exactly when 5 or more failed
\* attempts of the account lie in the trailing 15 minutes, successes in
\* between or not: 4 failures, a success and 1 more failure lock the next
\* sign_in out.
C36_SuccessKeepsFailures == [](C36_Decision) /\ [][C36_SuccessStep]_vars

\* locked out by 4 failures, a success and a fifth failure
C36_Witness ==
  \E p \in Procs :
    /\ Finished(p, "sign_in") /\ result[p].exc = "AccountLockedError"
    /\ Cardinality(PriorFailures(result[p])) = LOCKOUT_THRESHOLD
    /\ \E j \in DOMAIN attempts :
         /\ attempts[j].success
         /\ attempts[j].user_id \in {u.id : u \in result[p].found}
         /\ Cardinality({i \in PriorFailures(result[p]) : i < j})
              = LOCKOUT_THRESHOLD - 1
         /\ \E k \in PriorFailures(result[p]) : k > j

\* the records that a step changes or removes, and the tasks that move
ChangedRecords == {r \in tokens : r \notin tokens'}
Moves(p) == pc'[p] # pc[p]

C37_Step ==
  /\ Cardinality(ChangedRecords) <= 1
  /\ \A r \in ChangedRecords :
       /\ \E p \in Procs :
            /\ Moves(p) /\ pc[p] \in {"rf_revoke", "so_revoke"}
            /\ r.token_hash = hash_refresh_token(local[p].res.presented)
       /\ [r EXCEPT !.revoked_at = now] \in tokens'
  /\ \A p \in Procs :
       Moves(p) /\ pc[p] \notin {"idle", "done"}
         /\ local[p].op \in {"sign_up", "sign_in", "get_or_create_google_user"}
         => /\ tokens \subseteq tokens'
            /\ Cardinality(tokens' \ tokens) <= 1
            /\ \A r \in tokens' \ tokens : r.revoked_at = NoTime
  /\ \A r \in tokens' :
       r.id \notin {x.id : x \in tokens} => r.revoked_at = NoTime

\* C37: a step of sign_up, sign_in or get_or_create_google_user keeps
\* every stored record as it is and adds at most one unrevoked record; a
\* step of refresh_tokens or sign_out changes at most the record of the
\* presented token, by setting its revocation time, and no step changes any
\* other record.
C37_OneRecordTouched == [][C37_Step]_vars

\* a sign_out of one of three sessions of an account: the presented record
\* is revoked, the two others of the account are not
C37_Witness ==
  \E p \in Procs :
    /\ Succeeded(p, "sign_out")
    /\ \E r \in get_by_token_hash(hash_refresh_token(result[p].presented)) :
         /\ r.revoked_at # NoTime
         /\ Cardinality({x \in tokens : x.user_id = r.user_id
                                          /\ x.revoked_at = NoTime}) = 2

C38_RecordStep ==
  \A r \in tokens : \A x \in tokens' :
    x.id = r.id
      => /\ x = [r EXCEPT !.revoked_at = x.revoked_at]
         /\ r.revoked_at # NoTime => x.revoked_at # NoTime

C38_RevokedNotValid ==
  \A r \in tokens :
    r.revoked_at # NoTime => r \notin get_valid_by_token_hash(r.token_hash, now)

\* C38: a stored refresh-token record changes in its revocation time only,
\* a revocation time that is set is never cleared again, and in every
\* state get_valid_by_token_hash returns no revoked record.
C38_RevocationPermanent == [](C38_RevokedNotValid) /\ [][C38_RecordStep]_vars

\* revoke_all_for_user revokes the one open session of an account and
\* leaves a record revoked by an earlier sign_out as it was
C38_Witness ==
  \E p \in Procs :
    /\ Finished(p, "revoke_all_for_user") /\ result[p].rowcount = 1
    /\ \E r \in tokens :
         /\ r.user_id = result[p].user
         /\ r.revoked_at # NoTime /\ r.revoked_at < now
         /\ get_valid_by_token_hash(r.token_hash, now) = {}
    /\ \E r \in tokens : r.user_id = result[p].user /\ r.revoked_at = now

\* the records that a step of one of the operations ops adds are records
\* of accounts that are stored and active when the step is taken
C39_IssueStep(ops) ==
  \A p \in Procs :
    Moves(p) /\ pc[p] \notin {"idle", "done"} /\ local[p].op \in ops
      => \A r \in tokens' \ tokens :
           \E u \in users : u.id = r.user_id /\ u.is_active

\* C39: every refresh-token record created by sign_in, refresh_tokens or
\* get_or_create_google_user is created for an account whose active flag
\* is true when the record is created.
C39_NoTokensForInactive ==
  [][C39_IssueStep({"sign_in", "refresh_tokens", "get_or_create_google_user"})]_vars

\* the same for the two operations that read the flag before they issue
C39_CheckedIssuers == [][C39_IssueStep({"sign_in", "refresh_tokens"})]_vars

====
